---- MODULE Spec2Model ----
(***************************************************************************)
(* Quizway_v2: the document-to-quiz pipeline.                              *)
(*                                                                         *)
(* A JavaScript string is modelled as a sequence of one-character strings, *)
(* so that the scanners, regular expressions and JSON.parse of the source  *)
(* act on characters, as they do in the code.  A parsed JSON value is a    *)
(* tagged record [t |-> tag, v |-> value]; a JavaScript null / undefined   *)
(* string result is the sequence Null.                                     *)
(***************************************************************************)
EXTENDS Integers, Sequences, FiniteSets, TLC

(***************************************************************************)
(* Characters and strings                                                  *)
(***************************************************************************)
Null == <<"null-value">>

Min(a, b) == IF a <= b THEN a ELSE b

\* \s of the regular expressions, over the characters of the model
IsWs(c) == c \in {" ", "\n", "\t", "\r", "\f"}
\* [\x00-\x08\x0B\x0C\x0E-\x1F]: the form feed stands for the class
IsControl(c) == c \in {"\f"}
IsDigit(c) == c \in {"0", "1", "2", "3", "4", "5", "6", "7", "8", "9"}
LowerCase == {"a", "b", "c", "d", "e", "f", "g", "h", "i", "j", "k", "l", "m",
              "n", "o", "p", "q", "r", "s", "t", "u", "v", "w", "x", "y", "z"}
UpperCase == {"A", "B", "C", "D", "E", "F", "G", "H", "I", "J", "K", "L", "M",
              "N", "O", "P", "Q", "R", "S", "T", "U", "V", "W", "X", "Y", "Z"}
IsLetter(c) == c \in LowerCase \cup UpperCase

DigitValue(c) ==
  CASE c = "0" -> 0 [] c = "1" -> 1 [] c = "2" -> 2 [] c = "3" -> 3
    [] c = "4" -> 4 [] c = "5" -> 5 [] c = "6" -> 6 [] c = "7" -> 7
    [] c = "8" -> 8 [] OTHER -> 9

DigitChar(n) ==
  CASE n = 0 -> "0" [] n = 1 -> "1" [] n = 2 -> "2" [] n = 3 -> "3"
    [] n = 4 -> "4" [] n = 5 -> "5" [] n = 6 -> "6" [] n = 7 -> "7"
    [] n = 8 -> "8" [] OTHER -> "9"

\* String.prototype.toLowerCase on one character
ToLowerChar(c) ==
  CASE c = "A" -> "a" [] c = "B" -> "b" [] c = "C" -> "c" [] c = "D" -> "d"
    [] c = "E" -> "e" [] c = "F" -> "f" [] c = "G" -> "g" [] c = "H" -> "h"
    [] c = "I" -> "i" [] c = "J" -> "j" [] c = "K" -> "k" [] c = "L" -> "l"
    [] c = "M" -> "m" [] c = "N" -> "n" [] c = "O" -> "o" [] c = "P" -> "p"
    [] c = "Q" -> "q" [] c = "R" -> "r" [] c = "S" -> "s" [] c = "T" -> "t"
    [] c = "U" -> "u" [] c = "V" -> "v" [] c = "W" -> "w" [] c = "X" -> "x"
    [] c = "Y" -> "y" [] c = "Z" -> "z" [] OTHER -> c

ToLowerCase(s) == [i \in 1..Len(s) |-> ToLowerChar(s[i])]

\* s.slice(from - 1, to) in 1-based positions; empty when from > to
Slice(s, from, to) == IF from > to THEN <<>> ELSE SubSeq(s, from, to)

\* the least member of the set S of positions, or 0 when it is empty
FirstIn(S) == IF S = {} THEN 0 ELSE CHOOSE k \in S : \A m \in S : k <= m

\* the greatest member of the set S of positions, or 0 when it is empty
LastIn(S) == IF S = {} THEN 0 ELSE CHOOSE k \in S : \A m \in S : m <= k

\* the least position >= i holding a character of set cs, or 0
IndexOfAny(s, cs, i) == FirstIn({k \in i..Len(s) : s[k] \in cs})

\* the greatest position <= i holding a character of set cs, or 0
LastIndexOfAny(s, cs, i) == LastIn({k \in 1..i : s[k] \in cs})

\* the first position >= i that is not white space (Len(s) + 1 if none)
RECURSIVE SkipWs(_, _)
SkipWs(s, i) ==
  IF i <= Len(s) /\ IsWs(s[i]) THEN SkipWs(s, i + 1) ELSE i

\* the last position <= i that is not white space (0 if none)
RECURSIVE SkipWsBack(_, _)
SkipWsBack(s, i) ==
  IF i >= 1 /\ IsWs(s[i]) THEN SkipWsBack(s, i - 1) ELSE i

\* String.prototype.trim
Trim(s) == Slice(s, SkipWs(s, 1), SkipWsBack(s, Len(s)))

\* does pattern p occur in s at position i
MatchAt(s, p, i) ==
  /\ i >= 1
  /\ i + Len(p) - 1 <= Len(s)
  /\ \A k \in 1..Len(p) : s[i + k - 1] = p[k]

\* the least position >= i where p occurs in s, or 0
IndexOfSeq(s, p, i) ==
  FirstIn({k \in i..(Len(s) - Len(p) + 1) : MatchAt(s, p, k)})

\* the characters of s at the positions of the set K, in order
Removed == "removed"
KeepAt(s, K) ==
  SelectSeq([k \in 1..Len(s) |-> IF k \in K THEN s[k] ELSE Removed],
            LAMBDA c : c # Removed)

(***************************************************************************)
(* JSON.parse and JSON.stringify                                           *)
(***************************************************************************)
JArr(elems) == [t |-> "arr", v |-> elems]
JObj(members) == [t |-> "obj", v |-> members]
JStr(chars) == [t |-> "str", v |-> chars]
JNum(n) == [t |-> "num", v |-> n]
JNull == [t |-> "null", v |-> 0]
JBool(b) == [t |-> "bool", v |-> b]

\* the white space of the JSON grammar (no form feed)
IsJsonWs(c) == c \in {" ", "\n", "\t", "\r"}

RECURSIVE SkipJsonWs(_, _)
SkipJsonWs(s, i) ==
  IF i <= Len(s) /\ IsJsonWs(s[i]) THEN SkipJsonWs(s, i + 1) ELSE i

PFail == [ok |-> FALSE, val |-> JNull, next |-> 0]
POk(val, next) == [ok |-> TRUE, val |-> val, next |-> next]

\* the grave accent U+0060, which a TLA+ string cannot hold, is written "~"
Backtick == "~"
Fence == <<Backtick, Backtick, Backtick>>
LitNull == <<"n", "u", "l", "l">>
LitTrue == <<"t", "r", "u", "e">>
LitFalse == <<"f", "a", "l", "s", "e">>

\* the digits of a number token starting at i: the position after the last one
RECURSIVE SkipDigits(_, _)
SkipDigits(s, i) ==
  IF i <= Len(s) /\ IsDigit(s[i]) THEN SkipDigits(s, i + 1) ELSE i

RECURSIVE DigitsValue(_, _, _, _)
DigitsValue(s, i, j, acc) ==
  IF i >= j THEN acc ELSE DigitsValue(s, i + 1, j, acc * 10 + DigitValue(s[i]))

\* a JSON number without fraction or exponent; no leading zero
ParseNumber(s, i) ==
  LET j == SkipDigits(s, i) IN
    IF j = i \/ (s[i] = "0" /\ j > i + 1) THEN PFail
    ELSE IF j <= Len(s) /\ s[j] \in {".", "e", "E"} THEN PFail
    ELSE POk(JNum(DigitsValue(s, i, j, 0)), j)

\* a JSON string without escape sequences; a raw control character or
\* line break inside it is a syntax error
ParseString(s, i) ==
  LET close == IndexOfAny(s, {"\"", "\n", "\r", "\t", "\f", "\\"}, i + 1) IN
    IF close = 0 \/ s[close] # "\"" THEN PFail
    ELSE POk(JStr(Slice(s, i + 1, close - 1)), close + 1)

ParseLiteral(s, i) ==
  IF MatchAt(s, LitNull, i) THEN POk(JNull, i + 4)
  ELSE IF MatchAt(s, LitTrue, i) THEN POk(JBool(TRUE), i + 4)
  ELSE IF MatchAt(s, LitFalse, i) THEN POk(JBool(FALSE), i + 5)
  ELSE PFail

RECURSIVE ParseValue(_, _)
RECURSIVE ParseElements(_, _, _)
RECURSIVE ParseMembers(_, _, _)

\* the elements of an array, i at the first token after "[" or ","
ParseElements(s, i, acc) ==
  LET r == ParseValue(s, i) IN
    IF ~r.ok THEN PFail
    ELSE LET j == SkipJsonWs(s, r.next) IN
      IF j > Len(s) THEN PFail
      ELSE IF s[j] = "]" THEN POk(JArr(Append(acc, r.val)), j + 1)
      ELSE IF s[j] = "," THEN ParseElements(s, SkipJsonWs(s, j + 1), Append(acc, r.val))
      ELSE PFail

\* the members of an object, i at the first token after "{" or ","
ParseMembers(s, i, acc) ==
  IF i > Len(s) \/ s[i] # "\"" THEN PFail
  ELSE LET k == ParseString(s, i) IN
    IF ~k.ok THEN PFail
    ELSE LET c == SkipJsonWs(s, k.next) IN
      IF c > Len(s) \/ s[c] # ":" THEN PFail
      ELSE LET r == ParseValue(s, SkipJsonWs(s, c + 1)) IN
        IF ~r.ok THEN PFail
        ELSE LET j == SkipJsonWs(s, r.next)
                 m == Append(acc, [key |-> k.val.v, val |-> r.val]) IN
          IF j > Len(s) THEN PFail
          ELSE IF s[j] = "}" THEN POk(JObj(m), j + 1)
          ELSE IF s[j] = "," THEN ParseMembers(s, SkipJsonWs(s, j + 1), m)
          ELSE PFail

ParseValue(s, i) ==
  IF i > Len(s) THEN PFail
  ELSE IF s[i] = "[" THEN
    LET j == SkipJsonWs(s, i + 1) IN
      IF j <= Len(s) /\ s[j] = "]" THEN POk(JArr(<<>>), j + 1)
      ELSE ParseElements(s, j, <<>>)
  ELSE IF s[i] = "{" THEN
    LET j == SkipJsonWs(s, i + 1) IN
      IF j <= Len(s) /\ s[j] = "}" THEN POk(JObj(<<>>), j + 1)
      ELSE ParseMembers(s, j, <<>>)
  ELSE IF s[i] = "\"" THEN ParseString(s, i)
  ELSE IF IsDigit(s[i]) THEN ParseNumber(s, i)
  ELSE ParseLiteral(s, i)

\* JSON.parse(s): ok = FALSE stands for the SyntaxError it throws
JsonParse(s) ==
  IF s = Null THEN POk(JNull, 0)
  ELSE LET r == ParseValue(s, SkipJsonWs(s, 1)) IN
    IF r.ok /\ SkipJsonWs(s, r.next) = Len(s) + 1 THEN r ELSE PFail

RECURSIVE NatChars(_)
NatChars(n) ==
  IF n < 10 THEN <<DigitChar(n)>> ELSE NatChars(n \div 10) \o <<DigitChar(n % 10)>>

RECURSIVE JsonStringify(_)
RECURSIVE StringifyElements(_, _)
RECURSIVE StringifyMembers(_, _)

StringifyElements(es, i) ==
  IF i > Len(es) THEN <<>>
  ELSE (IF i > 1 THEN <<",">> ELSE <<>>) \o JsonStringify(es[i])
       \o StringifyElements(es, i + 1)

StringifyMembers(ms, i) ==
  IF i > Len(ms) THEN <<>>
  ELSE (IF i > 1 THEN <<",">> ELSE <<>>)
       \o <<"\"">> \o ms[i].key \o <<"\"", ":">> \o JsonStringify(ms[i].val)
       \o StringifyMembers(ms, i + 1)

\* JSON.stringify of a value whose strings need no escaping
JsonStringify(j) ==
  CASE j.t = "arr" -> <<"[">> \o StringifyElements(j.v, 1) \o <<"]">>
    [] j.t = "obj" -> <<"{">> \o StringifyMembers(j.v, 1) \o <<"}">>
    [] j.t = "str" -> <<"\"">> \o j.v \o <<"\"">>
    [] j.t = "num" -> NatChars(j.v)
    [] j.t = "bool" -> IF j.v THEN LitTrue ELSE LitFalse
    [] OTHER -> LitNull

(***************************************************************************)
(* Response Normalizer: api/services/quizService.js                        *)
(***************************************************************************)
JUndefined == [t |-> "undefined", v |-> 0]

K_question == <<"q", "u", "e", "s", "t", "i", "o", "n">>
K_options == <<"o", "p", "t", "i", "o", "n", "s">>
K_hint == <<"h", "i", "n", "t">>
K_explanation == <<"e", "x", "p", "l", "a", "n", "a", "t", "i", "o", "n">>
K_correct == <<"c", "o", "r", "r", "e", "c", "t">>
K_questions == <<"q", "u", "e", "s", "t", "i", "o", "n", "s">>
K_id == <<"i", "d">>
JsonTag == <<"j", "s", "o", "n">>

\* obj[key] of JavaScript: the last member of that name, undefined if the
\* value is no plain object or has no such member
RECURSIVE GetFrom(_, _, _)
GetFrom(ms, key, i) ==
  IF i < 1 THEN JUndefined
  ELSE IF ms[i].key = key THEN ms[i].val
  ELSE GetFrom(ms, key, i - 1)

Get(j, key) == IF j.t = "obj" THEN GetFrom(j.v, key, Len(j.v)) ELSE JUndefined

\* the truthiness of a JavaScript value
Truthy(j) ==
  CASE j.t = "null" -> FALSE
    [] j.t = "undefined" -> FALSE
    [] j.t = "bool" -> j.v
    [] j.t = "num" -> j.v # 0
    [] j.t = "str" -> Len(j.v) > 0
    [] OTHER -> TRUE

\* a || b on string results, where null and "" are falsy
OrElse(a, b) == IF a = Null \/ a = <<>> THEN b ELSE a

\* s.match(/```(?:json)?\s*([\s\S]*?)\s*```/i), then m[1].trim() or null
findJsonCodeBlock(s) ==
  LET open == IndexOfSeq(s, Fence, 1) IN
    IF open = 0 THEN Null
    ELSE LET afterTag == IF ToLowerCase(Slice(s, open + 3, Min(open + 6, Len(s)))) = JsonTag
                         THEN open + 7 ELSE open + 3
             start == SkipWs(s, afterTag)
             close == IndexOfSeq(s, Fence, start) IN
      IF close = 0 THEN Null
      ELSE LET m1 == Slice(s, start, SkipWsBack(s, close - 1)) IN
        IF m1 = <<>> THEN Null ELSE Trim(m1)

\* the number of positions in lo..hi holding the character c
CountChar(s, c, lo, hi) == Cardinality({k \in lo..hi : s[k] = c})

\* the value of depth in the loop of findBalanced after position i
DepthAfter(s, openChar, closeChar, start, i) ==
  CountChar(s, openChar, start, i) - CountChar(s, closeChar, start, i)

\* the loop of findBalanced: the first closeChar at which depth returns to 0
BalancedEnd(s, openChar, closeChar, start) ==
  FirstIn({i \in start..Len(s) :
             s[i] = closeChar /\ DepthAfter(s, openChar, closeChar, start, i) = 0})

findBalanced(s) ==
  LET start == IndexOfAny(s, {"{", "["}, 1) IN
    IF start = 0 THEN Null
    ELSE LET openChar == s[start]
             closeChar == IF openChar = "{" THEN "}" ELSE "]"
             end == BalancedEnd(s, openChar, closeChar, start) IN
      IF end = 0 THEN Null ELSE Slice(s, start, end)

\* is position k inside a match of /,\s*(?=[}\]])/: a comma, or white space
\* after one, with only white space up to a closing bracket
InTrailingComma(s, k) ==
  LET j == SkipWs(s, k + 1)
      i == SkipWsBack(s, k)
  IN /\ j <= Len(s)
     /\ s[j] \in {"}", "]"}
     /\ \/ s[k] = ","
        \/ IsWs(s[k]) /\ i >= 1 /\ s[i] = ","

\* s.replace(/,\s*([}\]])/g, "$1")
StripTrailingCommas(s) == KeepAt(s, {k \in 1..Len(s) : ~InTrailingComma(s, k)})

\* s.replace(/[\x00-\x08\x0B\x0C\x0E-\x1F]/g, "")
StripControl(s) == SelectSeq(s, LAMBDA c : ~IsControl(c))

repairJsonString(str) ==
  IF str = Null \/ str = <<>> THEN str
  ELSE LET s0 == Trim(str)
           first == IndexOfAny(s0, {"{", "["}, 1)
           s1 == IF first # 0 THEN Slice(s0, first, Len(s0)) ELSE s0
           lastClose == LastIndexOfAny(s1, {"}", "]"}, Len(s1))
           s2 == IF lastClose # 0 THEN Slice(s1, 1, lastClose) ELSE s1
       IN StripControl(StripTrailingCommas(s2))

\* JSON.parse of a string that may be empty ("" is a syntax error)
FirstParsed(first, second) ==
  IF first.ok THEN first.val
  ELSE IF second.ok THEN second.val
  ELSE JArr(<<>>)

ParseOrRepair(jsonString) ==
  FirstParsed(JsonParse(jsonString), JsonParse(repairJsonString(jsonString)))

tryParseAIResponse(raw) ==
  ParseOrRepair(OrElse(findJsonCodeBlock(raw),
                       OrElse(findBalanced(raw), repairJsonString(raw))))

validQuestion(q) ==
  /\ Truthy(q)
  /\ q.t \in {"obj", "arr"}
  /\ Truthy(Get(q, K_question))
  /\ Get(q, K_options).t = "arr"
  /\ Len(Get(q, K_options).v) = 4
  /\ Get(q, K_hint).t = "str"
  /\ Get(q, K_explanation).t = "str"
  /\ Get(q, K_correct).t = "num"
  /\ Get(q, K_correct).v >= 1
  /\ Get(q, K_correct).v <= 4

validateQuestionsArray(arr) ==
  /\ arr.t = "arr"
  /\ \A i \in 1..Len(arr.v) : validQuestion(arr.v[i])

(***************************************************************************)
(* Fallback Generator: api/services/quizService.js                         *)
(***************************************************************************)
MinSentenceChars == 30
Blank == <<"_", "_", "_", "_", "_">>
DefaultWord == <<"A", "n", "s", "w", "e", "r">>
HintText ==
  <<"F", "o", "c", "u", "s", " ", "o", "n", " ", "t", "h", "e", " ", "m",
    "i", "s", "s", "i", "n", "g", " ", "k", "e", "y", "w", "o", "r", "d",
    " ", "i", "n", " ", "t", "h", "e", " ", "s", "e", "n", "t", "e", "n",
    "c", "e", ".">>
ExplanationHead ==
  <<"T", "h", "e", " ", "m", "i", "s", "s", "i", "n", "g", " ", "w", "o",
    "r", "d", " ", "'">>
ExplanationTail ==
  <<"'", " ", "f", "i", "t", "s", " ", "b", "e", "s", "t", " ", "i", "n",
    " ", "t", "h", "e", " ", "c", "o", "n", "t", "e", "x", "t", ".">>

\* text.replace(/\s+/g, " ")
CollapseWs(s) ==
  LET t == [k \in 1..Len(s) |-> IF IsWs(s[k]) THEN " " ELSE s[k]]
  IN KeepAt(t, {k \in 1..Len(t) : ~(t[k] = " " /\ k > 1 /\ t[k - 1] = " ")})

\* a match of /[.?!]\s+/ starts at k
IsSentenceEnd(s, k) ==
  s[k] \in {".", "?", "!"} /\ k + 1 <= Len(s) /\ IsWs(s[k + 1])

\* s.split(/[.?!]\s+/) from position i
RECURSIVE SplitSentences(_, _)
SplitSentences(s, i) ==
  LET sep == FirstIn({k \in i..Len(s) : IsSentenceEnd(s, k)}) IN
    IF sep = 0 THEN <<Slice(s, i, Len(s))>>
    ELSE <<Slice(s, i, sep - 1)>> \o SplitSentences(s, SkipWs(s, sep + 1))

\* s.split(/\s+/) from position i
RECURSIVE SplitWords(_, _)
SplitWords(s, i) ==
  LET sep == FirstIn({k \in i..Len(s) : IsWs(s[k])}) IN
    IF sep = 0 THEN <<Slice(s, i, Len(s))>>
    ELSE <<Slice(s, i, sep - 1)>> \o SplitWords(s, SkipWs(s, sep))

HasLetter(w) == \E k \in 1..Len(w) : IsLetter(w[k])

\* the sentences localGenerator keeps
Sentences(text) ==
  LET pieces == SplitSentences(CollapseWs(text), 1)
      trimmed == [k \in 1..Len(pieces) |-> Trim(pieces[k])]
  IN SelectSeq(trimmed, LAMBDA x : Len(x) > MinSentenceChars)

\* words.sort((a, b) => b.length - a.length)[0]: the sort is stable, so the
\* first of the longest words; undefined (<<>>) when there is no word
LongestWord(words) ==
  IF words = <<>> THEN <<>>
  ELSE words[FirstIn({k \in 1..Len(words) :
                       \A m \in 1..Len(words) : Len(words[m]) <= Len(words[k])})]

\* s.replace(w, r): the first occurrence of the string w
ReplaceFirst(s, w, r) ==
  LET at == IndexOfSeq(s, w, 1) IN
    IF at = 0 THEN s
    ELSE Slice(s, 1, at - 1) \o r \o Slice(s, at + Len(w), Len(s))

\* correctWord.replace(/[^A-Za-z0-9-]/g, "")
KeepAlnumDash(w) == SelectSeq(w, LAMBDA c : IsLetter(c) \/ IsDigit(c) \/ c = "-")

\* Math.min(numQuestions, n) as the bound of `i < ...`: NaN, which nothing
\* is less than, when numQuestions is not a number
LoopBound(numQuestions, n) ==
  IF numQuestions.t = "num" THEN Min(numQuestions.v, n) ELSE 0

\* one question of localGenerator: sentence s, index i, and the tokens
\* Math.random() supplied until the Set of options held 4 entries
LocalQuestion(s, i, tokens) ==
  LET words == SelectSeq(SplitWords(s, 1), HasLetter)
      correctWord == OrElse(LongestWord(words), DefaultWord)
      correct == KeepAlnumDash(correctWord)
      questionText == ReplaceFirst(s, correctWord, Blank)
      options == <<correct>> \o tokens
      correctIndex == FirstIn({k \in 1..Len(options) : options[k] = correct}) - 1
  IN JObj(<<[key |-> K_id, val |-> JStr(NatChars(i))],
            [key |-> K_question, val |-> JStr(questionText)],
            [key |-> K_options,
             val |-> JArr([k \in 1..Len(options) |-> JStr(options[k])])],
            [key |-> K_hint, val |-> JStr(HintText)],
            [key |-> K_correct,
             val |-> JNum((IF correctIndex >= 0 THEN correctIndex ELSE 0) + 1)],
            [key |-> K_explanation, val |-> JStr(ExplanationHead \o correct \o ExplanationTail)]>>)

\* the answer word of the i-th kept sentence
CorrectOf(s) ==
  KeepAlnumDash(OrElse(LongestWord(SelectSeq(SplitWords(s, 1), HasLetter)), DefaultWord))

\* localGenerator(text, numQuestions); rnd[i] are the 3 random tokens that
\* entered the option Set of question i
localGenerator(text, numQuestions, rnd) ==
  LET sentences == Sentences(text)
      n == LoopBound(numQuestions, Len(sentences))
  IN [i \in 1..n |-> LocalQuestion(sentences[i], i, rnd[i])]

(***************************************************************************)
(* The inputs: document texts and oracle outputs                           *)
(***************************************************************************)
\* what the PDF decoder or an OCR provider may return
TextNone == <<>>
TextTiny ==
  <<"P", "l", "a", "n", "t", "s", " ", "n", "e", "e", "d", " ", "l", "i",
    "g", "h", "t", " ", "a", "n", "d", " ", "w", "a", "t", "e", "r", " ",
    "t", "o", " ", "g", "r", "o", "w", ".">>
TextBrief ==
  <<"P", "h", "o", "t", "o", "s", "y", "n", "t", "h", "e", "s", "i", "s",
    " ", "i", "s", " ", "h", "o", "w", " ", "p", "l", "a", "n", "t", "s",
    " ", "c", "o", "n", "v", "e", "r", "t", " ", "l", "i", "g", "h", "t",
    " ", "i", "n", "t", "o", " ", "e", "n", "e", "r", "g", "y", " ", "f",
    "o", "r", " ", "g", "r", "o", "w", "t", "h", ".">>
TextLesson ==
  <<"L", "E", "S", "S", "O", "N", " ", "-", " ", "1", "\n", "P", "h", "o",
    "t", "o", "s", "y", "n", "t", "h", "e", "s", "i", "s", " ", "i", "s",
    " ", "h", "o", "w", " ", "p", "l", "a", "n", "t", "s", " ", "c", "o",
    "n", "v", "e", "r", "t", " ", "l", "i", "g", "h", "t", " ", "i", "n",
    "t", "o", " ", "e", "n", "e", "r", "g", "y", ".", " ", "C", "h", "l",
    "o", "r", "o", "p", "h", "y", "l", "l", " ", "a", "b", "s", "o", "r",
    "b", "s", " ", "l", "i", "g", "h", "t", ".", " ", "P", "l", "a", "n",
    "t", "s", " ", "r", "e", "l", "e", "a", "s", "e", " ", "o", "x", "y",
    "g", "e", "n", " ", "i", "n", "t", "o", " ", "t", "h", "e", " ", "a",
    "i", "r", " ", "a", "r", "o", "u", "n", "d", " ", "t", "h", "e", "m",
    ".">>
TextChoppy ==
  <<"P", "l", "a", "n", "t", "s", " ", "g", "r", "o", "w", ".", " ", "L",
    "e", "a", "v", "e", "s", " ", "a", "r", "e", " ", "g", "r", "e", "e",
    "n", ".", " ", "R", "o", "o", "t", "s", " ", "t", "a", "k", "e", " ",
    "w", "a", "t", "e", "r", ".", " ", "S", "t", "e", "m", "s", " ", "h",
    "o", "l", "d", " ", "l", "e", "a", "v", "e", "s", ".", " ", "S", "e",
    "e", "d", "s", " ", "m", "a", "k", "e", " ", "p", "l", "a", "n", "t",
    "s", ".", " ", "L", "i", "g", "h", "t", " ", "h", "e", "l", "p", "s",
    " ", "t", "h", "e", "m", ".", " ", "A", "i", "r", " ", "t", "o", "o",
    ".">>
\* a text whose first long sentence is a row of figures
TextLedger ==
  <<"R", "a", "i", "n", "f", "a", "l", "l", " ", "a", "t", " ", "t", "h",
    "e", " ", "s", "t", "a", "t", "i", "o", "n", ".", " ", "2", "0", "1",
    "9", " ", "2", "0", "2", "0", " ", "2", "0", "2", "1", " ", "2", "0",
    "2", "2", " ", "2", "0", "2", "3", " ", "2", "0", "2", "4", " ", "2",
    "0", "2", "5", " ", "2", "0", "2", "6", ".", " ", "V", "a", "l", "u",
    "e", "s", " ", "a", "r", "e", " ", "g", "i", "v", "e", "n", " ", "i",
    "n", " ", "m", "i", "l", "l", "i", "m", "e", "t", "r", "e", "s", " ",
    "o", "f", " ", "r", "a", "i", "n", " ", "f", "o", "r", " ", "e", "v",
    "e", "r", "y", " ", "m", "o", "n", "t", "h", ".">>
TextOcrScrap ==
  <<"P", "a", "g", "e", " ", "1", " ", " ", " ", "o", "f", " ", "a", " ",
    "s", "c", "a", "n", "n", "e", "d", " ", "b", "o", "o", "k">>

\* JSON.stringify with a comma added before every closing bracket
RECURSIVE StringifyTrailing(_)
RECURSIVE TrailingElements(_, _)
RECURSIVE TrailingMembers(_, _)

TrailingElements(es, i) ==
  IF i > Len(es) THEN <<>>
  ELSE StringifyTrailing(es[i]) \o <<",">> \o TrailingElements(es, i + 1)

TrailingMembers(ms, i) ==
  IF i > Len(ms) THEN <<>>
  ELSE <<"\"">> \o ms[i].key \o <<"\"", ":">> \o StringifyTrailing(ms[i].val)
       \o <<",">> \o TrailingMembers(ms, i + 1)

StringifyTrailing(j) ==
  CASE j.t = "arr" -> <<"[">> \o TrailingElements(j.v, 1) \o <<"]">>
    [] j.t = "obj" -> <<"{">> \o TrailingMembers(j.v, 1) \o <<"}">>
    [] OTHER -> JsonStringify(j)

\* a question object as the prompt's example lays it out
Question(q, o, correct) ==
  JObj(<<[key |-> K_id, val |-> JStr(<<"1">>)],
         [key |-> K_question, val |-> JStr(q)],
         [key |-> K_options, val |-> JArr([k \in 1..Len(o) |-> JStr(o[k])])],
         [key |-> K_hint, val |-> JStr(<<"h">>)],
         [key |-> K_correct, val |-> JNum(correct)],
         [key |-> K_explanation, val |-> JStr(<<"e">>)]>>)

OptionsABCD == << <<"A">>, <<"B">>, <<"C">>, <<"D">> >>
\* the question of Scenario B, with a correct index in range
QuestionPlain == Question(<<"Q", "1">>, OptionsABCD, 1)
\* a question whose text holds a closing square bracket
QuestionBracket == Question(<<"Q", "]">>, OptionsABCD, 2)
\* the question of Scenario B: correct index out of range
QuestionFive == Question(<<"Q", "1">>, OptionsABCD, 5)
\* two options that differ in case only
QuestionDup == Question(<<"Q", "1">>, << <<"A">>, <<"a">>, <<"C">>, <<"D">> >>, 1)

\* the batches the oracle may have in mind
Batches ==
  [plain |-> JArr(<<QuestionPlain>>),
   bracket |-> JArr(<<QuestionBracket>>),
   five |-> JArr(<<QuestionFive>>),
   dup |-> JArr(<<QuestionDup>>)]

\* batches that satisfy the Question schema of the design
ValidBatches == {"plain", "bracket"}

ProseBefore == <<"H", "e", "r", "e", " ", "i", "s", " ", "t", "h", "e", " ", "q", "u",
    "i", "z", ":", " ">>
ProseAfter == <<" ", "E", "n", "j", "o", "y", "!">>
ProseBracket == <<"Q", "u", "i", "z", " ", "[", "v", "1", "]", ":", " ">>
ProseOnly == <<"S", "o", "r", "r", "y", ",", " ", "I", " ", "c", "a", "n", "n", "o",
    "t", " ", "h", "e", "l", "p", ".">>
TruncateAt == 40

\* the oracle's output for batch b in form f
Render(f, b) ==
  LET j == Batches[b] IN
  CASE f = "bare" -> JsonStringify(j)
    [] f = "fence_json" -> Fence \o JsonTag \o <<"\n">> \o JsonStringify(j) \o <<"\n">> \o Fence
    [] f = "fence" -> Fence \o <<"\n">> \o JsonStringify(j) \o <<"\n">> \o Fence
    [] f = "prose" -> ProseBefore \o JsonStringify(j) \o ProseAfter
    [] f = "prose_bracket" -> ProseBracket \o JsonStringify(j)
    [] f = "trailing" -> StringifyTrailing(j)
    [] f = "object" -> JsonStringify(JObj(<<[key |-> K_questions, val |-> j]>>))
    [] f = "truncated" -> Slice(JsonStringify(j), 1, TruncateAt)
    [] f = "refusal" -> ProseOnly
    [] OTHER -> <<>>

\* forms that embed a batch in a code fence, in prose, or with trailing commas
EmbeddingForms == {"fence_json", "fence", "prose", "prose_bracket", "trailing"}

OracleOutputs ==
  ({"bare"} \cup EmbeddingForms) \X {"plain", "bracket"}
  \cup {"bare", "fence_json"} \X {"five", "dup"}
  \cup {"object", "truncated", "refusal", "empty"} \X {"plain"}

(***************************************************************************)
(* Text extraction: api/services/pdfService.js                             *)
(***************************************************************************)
PageWord == <<"p", "a", "g", "e">>

\* /Page\s*\d+/i matches at position p: the position of its last character,
\* or 0 when it does not match
PageMatchEnd(s, p) ==
  IF p + 3 <= Len(s) /\ ToLowerCase(Slice(s, p, p + 3)) = PageWord
  THEN LET d == SkipWs(s, p + 4) IN
         IF d <= Len(s) /\ IsDigit(s[d]) THEN SkipDigits(s, d) - 1 ELSE 0
  ELSE 0

\* position k lies in a match of /Page\s*\d+/gi
InPageMatch(s, k) ==
  LET p == LastIn({q \in 1..k : ToLowerChar(s[q]) = "p"}) IN
    p # 0 /\ PageMatchEnd(s, p) >= k

\* position k lies in a run of white space of length >= 2
InWsRun(s, k) ==
  IsWs(s[k]) /\ ((k > 1 /\ IsWs(s[k - 1])) \/ (k < Len(s) /\ IsWs(s[k + 1])))

\* s.replace(/\s{2,}/g, " ")
CollapseWsRuns(s) ==
  LET t == [k \in 1..Len(s) |-> IF InWsRun(s, k) THEN " " ELSE s[k]]
  IN KeepAt(t, {k \in 1..Len(t) : ~(InWsRun(s, k) /\ k > 1 /\ IsWs(s[k - 1]))})

\* s.replace(/\n{3,}/g, "\n\n"): of a run of line feeds the first two stay
CollapseBlankLines(s) ==
  KeepAt(s, {k \in 1..Len(s) :
              ~(k > 2 /\ s[k] = "\n" /\ s[k - 1] = "\n" /\ s[k - 2] = "\n")})

cleanText(text) ==
  IF text = <<>> THEN <<>>
  ELSE Trim(CollapseBlankLines(CollapseWsRuns(
         KeepAt(text, {k \in 1..Len(text) : ~InPageMatch(text, k)}))))

(***************************************************************************)
(* The section parser of api/services/pdfService.js                        *)
(***************************************************************************)
DEFAULT_MIN_SECTION_CHARS == 120
MAX_HEADER_FOOTER_SAMPLE_PAGES == 8

Max(a, b) == IF a >= b THEN a ELSE b

\* s.split(c) from position i, c a single character
RECURSIVE SplitOn(_, _, _)
SplitOn(s, c, i) ==
  LET sep == FirstIn({k \in i..Len(s) : s[k] = c}) IN
    IF sep = 0 THEN <<Slice(s, i, Len(s))>>
    ELSE <<Slice(s, i, sep - 1)>> \o SplitOn(s, c, sep + 1)

\* parts.join(sep)
RECURSIVE JoinWith(_, _)
JoinWith(parts, sep) ==
  IF parts = <<>> THEN <<>>
  ELSE IF Len(parts) = 1 THEN parts[1]
  ELSE parts[1] \o sep \o JoinWith(Tail(parts), sep)

\* text.split('\n').map(l => l.trim())
LinesOf(pageText) ==
  LET raw == SplitOn(pageText, "\n", 1)
  IN [k \in 1..Len(raw) |-> Trim(raw[k])]

\* ... .filter(Boolean)
TrimmedLines(pageText) == SelectSeq(LinesOf(pageText), LAMBDA l : l # <<>>)

\* s.replace(/\r\n/g, '\n')
ReplaceCrLf(s) ==
  KeepAt(s, {k \in 1..Len(s) : ~(s[k] = "\r" /\ k < Len(s) /\ s[k + 1] = "\n")})

\* splitTextByApproxPages: numpages slices of Math.ceil(length / numpages)
\* characters, each trimmed
splitTextByApproxPages(fullText, numpages) ==
  LET approxPer == (Len(fullText) + Max(1, numpages) - 1) \div Max(1, numpages)
  IN [i \in 1..numpages |->
        Trim(Slice(fullText, (i - 1) * approxPer + 1,
                   Min(Len(fullText), i * approxPer)))]

\* extractPagesText after pdf-parse has decoded data.text and data.numpages:
\* the split at form feeds when it leaves a non-empty page, else the even
\* split, else the whole text
extractPagesText(data) ==
  LET parts == SplitOn(data.text, "\f", 1)
      rawPages == [k \in 1..Len(parts) |-> Trim(ReplaceCrLf(parts[k]))]
      cleaned == SelectSeq(rawPages, LAMBDA p : p # <<>>)
  IN IF Len(cleaned) > 0 THEN cleaned
     ELSE IF data.numpages > 0
          THEN splitTextByApproxPages(data.text, data.numpages)
     ELSE <<Trim(data.text)>>

\* normalizePageText: the trimmed non-empty lines; the \r of a \r\n goes
\* with the trim of the line before it
normalizePageText(pageText) == JoinWith(TrimmedLines(pageText), <<"\n">>)

\* \w of the regular expressions
IsWordChar(c) == IsLetter(c) \/ IsDigit(c) \/ c = "_"

\* /\bw\b/.test(s) for a word w of letters
HasWord(s, w) ==
  \E k \in 1..Len(s) :
    /\ MatchAt(s, w, k)
    /\ (k = 1 \/ ~IsWordChar(s[k - 1]))
    /\ (k + Len(w) > Len(s) \/ ~IsWordChar(s[k + Len(w)]))

\* the words of the patterns of isLikelyHeaderFooter
HeaderFooterWords ==
  { <<"p", "a", "g", "e">>, <<"c", "h", "a", "p", "t", "e", "r">>,
    <<"c", "o", "n", "t", "e", "n", "t", "s">>,
    <<"p", "u", "b", "l", "i", "s", "h", "e", "r">>,
    <<"p", "r", "e", "s", "s">>,
    <<"u", "n", "i", "v", "e", "r", "s", "i", "t", "y">>,
    <<"d", "e", "p", "a", "r", "t", "m", "e", "n", "t">> }

MinHeaderFooterChars == 3
MaxHeaderFooterChars == 120

\* isLikelyHeaderFooter(line): a boilerplate word, or a trailing digit
isLikelyHeaderFooter(line) ==
  /\ line # <<>>
  /\ Len(line) >= MinHeaderFooterChars
  /\ Len(line) <= MaxHeaderFooterChars
  /\ \/ \E w \in HeaderFooterWords : HasWord(ToLowerCase(line), w)
     \/ LET t == Trim(line) IN t # <<>> /\ IsDigit(t[Len(t)])

\* lines.slice(0, 2) and lines.slice(-2)
TopLines(lines) == SubSeq(lines, 1, Min(2, Len(lines)))
BottomLines(lines) == SubSeq(lines, Max(1, Len(lines) - 1), Len(lines))

\* the lines counted at the top (at the bottom) of the sampled pages
SampleCount(pages) == Min(Len(pages), MAX_HEADER_FOOTER_SAMPLE_PAGES)
HeaderThreshold(pages) == Max(1, SampleCount(pages) \div 2)

\* top (bottom) of each sampled page
SampleTops(pages) ==
  [p \in 1..SampleCount(pages) |-> TopLines(TrimmedLines(pages[p]))]
SampleBottoms(pages) ==
  [p \in 1..SampleCount(pages) |-> BottomLines(TrimmedLines(pages[p]))]

SeqRange(seq) == {seq[k] : k \in 1..Len(seq)}

\* headerCandidates[line], footerCandidates[line]: the occurrences of the
\* line in the samples
CandidateCount(samples, line) ==
  Cardinality({pk \in (1..Len(samples)) \X (1..2) :
                 pk[2] <= Len(samples[pk[1]]) /\ samples[pk[1]][pk[2]] = line})

\* the candidates counted at least threshold times that look like boilerplate
Promoted(samples, threshold) ==
  {l \in UNION {SeqRange(samples[p]) : p \in 1..Len(samples)} :
     CandidateCount(samples, l) >= threshold /\ isLikelyHeaderFooter(l)}

Headers(pages) == Promoted(SampleTops(pages), HeaderThreshold(pages))
Footers(pages) == Promoted(SampleBottoms(pages), HeaderThreshold(pages))

\* while (lines.length && headers.includes(lines[0])) lines.shift()
RECURSIVE ShiftWhile(_, _)
ShiftWhile(lines, headers) ==
  IF lines # <<>> /\ lines[1] \in headers THEN ShiftWhile(Tail(lines), headers)
  ELSE lines

\* while (lines.length && footers.includes(lines[lines.length - 1])) lines.pop()
RECURSIVE PopWhile(_, _)
PopWhile(lines, footers) ==
  IF lines # <<>> /\ lines[Len(lines)] \in footers
  THEN PopWhile(SubSeq(lines, 1, Len(lines) - 1), footers)
  ELSE lines

\* removeRepeatingHeadersFooters(pages).pagesWithout
\* the same for the sampled pages only
StripSampledPages(pages, headers, footers) ==
  [p \in 1..Len(pages) |->
     IF p > MAX_HEADER_FOOTER_SAMPLE_PAGES THEN pages[p]
     ELSE Trim(JoinWith(PopWhile(ShiftWhile(LinesOf(pages[p]), headers),
                                 footers), <<"\n">>))]

StripPages(pages, headers, footers) ==
  [p \in 1..Len(pages) |->
     Trim(JoinWith(PopWhile(ShiftWhile(LinesOf(pages[p]), headers), footers),
                   <<"\n">>))]

removeRepeatingHeadersFooters(pages) ==
  StripPages(pages, Headers(pages), Footers(pages))

\* the positions where ^ of a multi-line pattern matches
LineStarts(s) == {k \in 1..Len(s) : k = 1 \/ s[k - 1] = "\n"}

\* w\b at position p of s
WordAt(s, w, p) ==
  MatchAt(s, w, p) /\ (p + Len(w) > Len(s) \/ ~IsWordChar(s[p + Len(w)]))

\* the end of a run of [.\-\s] from position i
RECURSIVE SkipDotDashWs(_, _)
SkipDotDashWs(s, i) ==
  IF i <= Len(s) /\ (s[i] \in {".", "-"} \/ IsWs(s[i]))
  THEN SkipDotDashWs(s, i + 1) ELSE i

W_chapter == <<"c", "h", "a", "p", "t", "e", "r">>
W_one == <<"1">>
W_contents == <<"c", "o", "n", "t", "e", "n", "t", "s">>
StartTopics ==
  { <<"i", "n", "t", "r", "o", "d", "u", "c", "t", "i", "o", "n">>,
    <<"o", "v", "e", "r", "v", "i", "e", "w">>,
    <<"b", "a", "c", "k", "g", "r", "o", "u", "n", "d">> }
StartWords ==
  { <<"i", "n", "t", "r", "o", "d", "u", "c", "t", "i", "o", "n">>,
    <<"f", "o", "r", "e", "w", "o", "r", "d">> }

\* startPatterns.some(re => re.test(t)): the four patterns, case-insensitive
\* and anchored at the start of a line
MatchesStartPattern(t) ==
  LET s == ToLowerCase(t) IN
  \E k \in LineStarts(s) :
    LET p == SkipWs(s, k) IN
      \/ /\ MatchAt(s, W_chapter, p)
         /\ SkipWs(s, p + Len(W_chapter)) > p + Len(W_chapter)
         /\ WordAt(s, W_one, SkipWs(s, p + Len(W_chapter)))
      \/ /\ MatchAt(s, W_one, p)
         /\ SkipDotDashWs(s, p + 1) > p + 1
         /\ \E w \in StartTopics : WordAt(s, w, SkipDotDashWs(s, p + 1))
      \/ \E w \in StartWords : WordAt(s, w, p)

\* /(^\s*\d+[\.\)]\s+\w+)/.test(s)
StartsNumbered(s) ==
  LET p == SkipWs(s, 1)
      d == SkipDigits(s, p)
  IN /\ d > p
     /\ d + 2 <= Len(s)
     /\ s[d] \in {".", ")"}
     /\ IsWs(s[d + 1])
     /\ SkipWs(s, d + 1) <= Len(s)
     /\ IsWordChar(s[SkipWs(s, d + 1)])

\* t.split('\n').slice(0, n).join(' ')
TopSample(t, n) ==
  LET lines == SplitOn(t, "\n", 1)
  IN JoinWith(SubSeq(lines, 1, Min(n, Len(lines))), <<" ">>)

StartSampleLines == 6
FrontSampleLines == 12
BackSampleLines == 14

FrontMatterWords ==
  { <<"p", "r", "e", "f", "a", "c", "e">>,
    <<"f", "o", "r", "e", "w", "o", "r", "d">>,
    <<"a", "c", "k", "n", "o", "w", "l", "e", "d", "g", "m", "e", "n", "t", "s">>,
    <<"a", "c", "k", "n", "o", "w", "l", "e", "d", "g", "m", "e", "n", "t">>,
    <<"a", "c", "k", "n", "o", "w", "l", "e", "d", "g", "e", "m", "e", "n", "t", "s">>,
    <<"a", "c", "k", "n", "o", "w", "l", "e", "d", "g", "e", "m", "e", "n", "t">>,
    <<"d", "e", "d", "i", "c", "a", "t", "i", "o", "n">>,
    <<"c", "o", "p", "y", "r", "i", "g", "h", "t">>,
    <<"a", "b", "o", "u", "t", " ", "t", "h", "e", " ", "a", "u", "t", "h", "o", "r">>,
    <<"p", "u", "b", "l", "i", "s", "h", "e", "r">>,
    <<"i", "m", "p", "r", "i", "n", "t">> }
BackMatterWords ==
  { <<"i", "n", "d", "e", "x">>,
    <<"r", "e", "f", "e", "r", "e", "n", "c", "e", "s">>,
    <<"b", "i", "b", "l", "i", "o", "g", "r", "a", "p", "h", "y">>,
    <<"e", "n", "d", "n", "o", "t", "e", "s">>,
    <<"g", "l", "o", "s", "s", "a", "r", "y">>,
    <<"a", "p", "p", "e", "n", "d", "i", "x">> }
W_author == <<"a", "u", "t", "h", "o", "r">>
W_bio == <<"b", "i", "o">>

\* frontMatterIndicators.some(re => re.test(sample))
IsFrontMatter(sample) ==
  LET s == ToLowerCase(sample) IN
    \/ \E w \in FrontMatterWords : HasWord(s, w)
    \/ Trim(s) = W_contents

\* backMatterIndicators.some(re => re.test(sample))
IsBackMatter(sample) ==
  LET s == ToLowerCase(sample) IN
    \/ \E w \in BackMatterWords : HasWord(s, w)
    \/ \E a \in 1..Len(s) :
         /\ WordAt(s, W_author, a) /\ (a = 1 \/ ~IsWordChar(s[a - 1]))
         /\ \E b \in (a + Len(W_author))..Len(s) :
              /\ MatchAt(s, W_bio, b) /\ ~IsWordChar(s[b - 1])
              /\ \A k \in a..b : s[k] # "\n"

\* the first loop of removeFrontAndBackMatter: a page that does not open with
\* "contents" and matches a start pattern or opens with a numbered line
IsStartPage(t) ==
  /\ Trim(ToLowerCase(SplitOn(t, "\n", 1)[1])) # W_contents
  /\ \/ MatchesStartPattern(t)
     \/ StartsNumbered(TopSample(t, StartSampleLines))

\* academicStartPage: 0 stands for null
AcademicStartPage(pages) ==
  LET byPattern == FirstIn({i \in 1..Len(pages) : IsStartPage(pages[i].text)})
      byFront == FirstIn({i \in 1..Len(pages) :
                    ~IsFrontMatter(TopSample(pages[i].text, FrontSampleLines))})
      found == IF byPattern # 0 THEN pages[byPattern].page
               ELSE IF byFront # 0 THEN pages[byFront].page
               ELSE 0
  IN IF found = 0 THEN 1 ELSE found

LastBodyPage(pages) ==
  LET lastBody == LastIn({i \in 1..Len(pages) :
                    ~IsBackMatter(TopSample(pages[i].text, BackSampleLines))})
  IN IF lastBody # 0 THEN pages[lastBody].page ELSE Len(pages)

\* the last body page taken as it is
UncheckedEndPage(pages) == LastBodyPage(pages)

AcademicEndPage(pages) ==
  IF LastBodyPage(pages) = 0 \/ LastBodyPage(pages) < AcademicStartPage(pages)
  THEN Len(pages)
  ELSE LastBodyPage(pages)

BioLineWords ==
  { <<"a", "b", "o", "u", "t", " ", "t", "h", "e", " ", "a", "u", "t", "h", "o", "r">>,
    <<"a", "u", "t", "h", "o", "r", " ", "b", "i", "o", "g", "r", "a", "p", "h", "y">>,
    <<"b", "i", "o", "g", "r", "a", "p", "h", "y">>,
    <<"a", "c", "k", "n", "o", "w", "l", "e", "d", "g", "m", "e", "n", "t", "s">>,
    <<"a", "c", "k", "n", "o", "w", "l", "e", "d", "g", "m", "e", "n", "t">>,
    <<"a", "c", "k", "n", "o", "w", "l", "e", "d", "g", "e", "m", "e", "n", "t", "s">>,
    <<"a", "c", "k", "n", "o", "w", "l", "e", "d", "g", "e", "m", "e", "n", "t">> }

\* /^\s*(about the author|author biography|biography|acknowledg(e)?ments?)\b/i
IsBioLine(l) ==
  \E w \in BioLineWords : WordAt(ToLowerCase(l), w, SkipWs(l, 1))

\* p.text.split('\n').filter(Boolean) without the lines of IsBioLine
WithoutBioLines(t) ==
  JoinWith(SelectSeq(SplitOn(t, "\n", 1),
                     LAMBDA l : l # <<>> /\ ~IsBioLine(l)), <<"\n">>)

\* pagesWithoutHeaderFooter.map((t, idx) => ({ page: idx + 1, text: t }))
PageObjects(pages) == [i \in 1..Len(pages) |-> [page |-> i, text |-> pages[i]]]

\* removeFrontAndBackMatter(pageObjects)
KeptPages(pageObjects, first, last) ==
  LET kept == SelectSeq(pageObjects,
                        LAMBDA p : p.page >= first /\ p.page <= last)
  IN [i \in 1..Len(kept) |->
        [page |-> kept[i].page, text |-> WithoutBioLines(kept[i].text)]]

removeFrontAndBackMatter(pageObjects) ==
  KeptPages(pageObjects, AcademicStartPage(pageObjects),
            AcademicEndPage(pageObjects))

NoHeading == [title |-> <<>>, level |-> 0]

\* the end of (?:\d+\.)+ from position i
RECURSIVE GroupsEnd(_, _)
GroupsEnd(s, i) ==
  LET a == SkipDigits(s, i) IN
    IF a > i /\ a <= Len(s) /\ s[a] = "." THEN GroupsEnd(s, a + 1) ELSE i

\* the end of the numbering ((?:\d+\.)+\d*|\d+) at the start of s, or 1
NumberingEnd(s) ==
  IF GroupsEnd(s, 1) > 1 THEN SkipDigits(s, GroupsEnd(s, 1))
  ELSE SkipDigits(s, 1)

\* the position of the \s+ after the numbering and the optional ) . or :
NumberingGap(s) ==
  LET e == NumberingEnd(s) IN
    IF e <= Len(s) /\ s[e] \in {")", ".", ":"} THEN e + 1 ELSE e

MatchesNumbered(s) ==
  /\ NumberingEnd(s) > 1
  /\ NumberingGap(s) <= Len(s)
  /\ IsWs(s[NumberingGap(s)])
  /\ SkipWs(s, NumberingGap(s)) <= Len(s)

NumberedHeading(s) ==
  LET numbering == Slice(s, 1, NumberingEnd(s) - 1)
      titleText == Slice(s, SkipWs(s, NumberingGap(s)), Len(s))
  IN [title |-> Trim(numbering \o <<" ">> \o titleText),
      level |-> CountChar(numbering, ".", 1, Len(numbering)) + 1]

\* the end of a run of [ivx\d], case-insensitive, from position i
RECURSIVE SkipRoman(_, _)
SkipRoman(s, i) ==
  IF i <= Len(s) /\ (IsDigit(s[i]) \/ s[i] \in {"i", "v", "x", "I", "V", "X"})
  THEN SkipRoman(s, i + 1) ELSE i

\* where the number of /^\s*chapter\s+([ivx\d]+)\b\.?\s*(.*)$/i starts
ChapterNumAt(s) == SkipWs(s, Len(W_chapter) + 1)

MatchesChapter(s) ==
  /\ MatchAt(ToLowerCase(s), W_chapter, 1)
  /\ ChapterNumAt(s) > Len(W_chapter) + 1
  /\ SkipRoman(s, ChapterNumAt(s)) > ChapterNumAt(s)
  /\ \/ SkipRoman(s, ChapterNumAt(s)) > Len(s)
     \/ ~IsWordChar(s[SkipRoman(s, ChapterNumAt(s))])

W_Chapter == <<"C", "h", "a", "p", "t", "e", "r", " ">>

ChapterHeading(s) ==
  LET e == SkipRoman(s, ChapterNumAt(s))
      num == Slice(s, ChapterNumAt(s), e - 1)
      afterDot == IF e <= Len(s) /\ s[e] = "." THEN e + 1 ELSE e
      rest == Slice(s, SkipWs(s, afterDot), Len(s))
  IN [title |-> Trim(W_Chapter \o num \o
                     (IF rest # <<>> THEN <<" ">> \o rest ELSE <<>>)),
      level |-> 1]

MinCapsChars == 3
MaxHeadingChars == 120
MaxCapsWords == 10
MaxTitleWords == 8

\* isAllCaps && shortEnough
IsCapsHeading(s) ==
  /\ \A k \in 1..Len(s) : s[k] # "_" /\ s[k] \notin LowerCase
  /\ Len(s) >= MinCapsChars
  /\ Len(s) <= MaxHeadingChars
  /\ CountChar(s, " ", 1, Len(s)) + 1 <= MaxCapsWords

\* at most 8 words, 60% of them starting with a capital letter
IsTitleCaseHeading(s) ==
  LET words == SplitWords(s, 1)
      titleCaseWords == SelectSeq(words,
                          LAMBDA w : w # <<>> /\ w[1] \in UpperCase)
  IN /\ Len(words) <= MaxTitleWords
     /\ 5 * Len(titleCaseWords) >= 3 * Max(1, Len(words))

\* detectHeading(line)
detectHeading(line) ==
  LET trimmed == Trim(line) IN
    IF trimmed = <<>> THEN NoHeading
    ELSE IF MatchesNumbered(trimmed) THEN NumberedHeading(trimmed)
    ELSE IF MatchesChapter(trimmed) THEN ChapterHeading(trimmed)
    ELSE IF IsCapsHeading(trimmed) THEN [title |-> trimmed, level |-> 1]
    ELSE IF IsTitleCaseHeading(trimmed) THEN [title |-> trimmed, level |-> 2]
    ELSE NoHeading

\* the end of t.replace(/\s+$/, '').replace(/\.+$/, '')
RECURSIVE SkipDotsBack(_, _)
SkipDotsBack(s, i) ==
  IF i >= 1 /\ s[i] = "." THEN SkipDotsBack(s, i - 1) ELSE i

normalizeTitle(t) ==
  Slice(t, 1, SkipDotsBack(t, SkipWsBack(t, Len(t))))

\* linesWithPage: the trimmed non-empty lines of the pages with their page
RECURSIVE LinesWithPage(_)
LinesWithPage(pageObjects) ==
  IF pageObjects = <<>> THEN <<>>
  ELSE LET lines == TrimmedLines(pageObjects[1].text)
       IN [k \in 1..Len(lines) |->
             [page |-> pageObjects[1].page, line |-> lines[k]]]
          \o LinesWithPage(Tail(pageObjects))

\* the indices of the candidate heading lines, in order
CandidatesOf(lwp) ==
  SelectSeq([k \in 1..Len(lwp) |-> k],
            LAMBDA k : detectHeading(lwp[k].line) # NoHeading)

FullDocument == <<"F", "u", "l", "l", " ", "D", "o", "c", "u", "m", "e", "n", "t">>

\* the section of the i-th candidate: the lines after it up to the next one
SectionAt(lwp, cands, i) ==
  LET curr == cands[i]
      last == IF i < Len(cands) THEN cands[i + 1] - 1 ELSE Len(lwp)
      h == detectHeading(lwp[curr].line)
  IN [title |-> IF h.title # <<>> THEN h.title ELSE lwp[curr].line,
      level |-> h.level,
      content |-> Trim(JoinWith([k \in 1..(last - curr) |-> lwp[curr + k].line],
                                <<"\n">>)),
      startPage |-> lwp[curr].page,
      endPage |-> IF i < Len(cands) THEN lwp[cands[i + 1]].page
                  ELSE lwp[Len(lwp)].page]

\* the merge loop from section i on; carry is what the short sections before
\* i have put into section i
RECURSIVE MergeShort(_, _, _, _)
MergeShort(sections, i, carry, minSectionChars) ==
  IF i > Len(sections) THEN <<>>
  ELSE LET sec == IF carry.merged
                  THEN [title |-> sections[i].title,
                        level |-> sections[i].level,
                        content |-> Trim(carry.content \o <<"\n", "\n">>
                                         \o sections[i].content),
                        startPage |-> Min(sections[i].startPage, carry.startPage),
                        endPage |-> sections[i].endPage]
                  ELSE sections[i]
       IN IF Len(sec.content) < minSectionChars /\ i < Len(sections)
          THEN MergeShort(sections, i + 1,
                          [merged |-> TRUE, content |-> sec.content,
                           startPage |-> sec.startPage], minSectionChars)
          ELSE <<sec>> \o MergeShort(sections, i + 1,
                            [merged |-> FALSE, content |-> <<>>, startPage |-> 0],
                            minSectionChars)

\* the section returned when no line is a candidate heading
FullDocumentSpanning(pageObjects, first, last) ==
  [title |-> FullDocument,
   level |-> 1,
   content |-> JoinWith([i \in 1..Len(pageObjects) |-> pageObjects[i].text],
                        <<"\n", "\n">>),
   startPage |-> first,
   endPage |-> last]

\* the same section numbered from page 1 to the page count
FullDocumentFromOne(pageObjects) ==
  FullDocumentSpanning(pageObjects, 1, Len(pageObjects))

FullDocumentSection(pageObjects) ==
  FullDocumentSpanning(
    pageObjects,
    IF Len(pageObjects) > 0 THEN pageObjects[1].page ELSE 1,
    IF Len(pageObjects) > 0 THEN pageObjects[Len(pageObjects)].page
    ELSE Len(pageObjects))

\* extractSectionsFromPagesWithAssets(pageObjects, { minSectionChars }) of a
\* document without images
extractSectionsFromPagesWithAssets(pageObjects, minSectionChars) ==
  LET lwp == LinesWithPage(pageObjects)
      cands == CandidatesOf(lwp)
  IN IF cands = <<>> THEN <<FullDocumentSection(pageObjects)>>
     ELSE LET merged == MergeShort([i \in 1..Len(cands) |-> SectionAt(lwp, cands, i)],
                                   1, [merged |-> FALSE, content |-> <<>>,
                                       startPage |-> 0], minSectionChars)
          IN [i \in 1..Len(merged) |->
                [title |-> normalizeTitle(merged[i].title),
                 level |-> Max(1, merged[i].level),
                 content |-> Trim(CollapseBlankLines(merged[i].content)),
                 startPage |-> merged[i].startPage,
                 endPage |-> merged[i].endPage]]

\* parsePdfBufferToSections: the stages from the decoded text to the sections
cleanedPages(data) ==
  LET pagesText == extractPagesText(data)
  IN [i \in 1..Len(pagesText) |-> normalizePageText(pagesText[i])]

pagesWithoutHeaderFooter(data) ==
  removeRepeatingHeadersFooters(cleanedPages(data))

trimmedPages(data) ==
  removeFrontAndBackMatter(PageObjects(pagesWithoutHeaderFooter(data)))

parsePdfBufferToSections(data) ==
  extractSectionsFromPagesWithAssets(trimmedPages(data), DEFAULT_MIN_SECTION_CHARS)

(***************************************************************************)
(* The documents of the section parser                                     *)
(***************************************************************************)
\* a body line: eleven words, none capitalised
LineLeaves ==
  <<"p", "l", "a", "n", "t", "s", " ", "m", "a", "k", "e", " ", "f", "o",
    "o", "d", " ", "f", "r", "o", "m", " ", "l", "i", "g", "h", "t", " ",
    "a", "n", "d", " ", "w", "a", "t", "e", "r", " ", "i", "n", " ", "t",
    "h", "e", "i", "r", " ", "g", "r", "e", "e", "n", " ", "l", "e", "a",
    "v", "e", "s">>
LineRoots ==
  <<"r", "o", "o", "t", "s", " ", "t", "a", "k", "e", " ", "u", "p", " ",
    "w", "a", "t", "e", "r", " ", "a", "n", "d", " ", "m", "i", "n", "e",
    "r", "a", "l", "s", " ", "f", "r", "o", "m", " ", "t", "h", "e", " ",
    "s", "o", "i", "l", " ", "a", "r", "o", "u", "n", "d", " ", "t", "h",
    "e", " ", "p", "l", "a", "n", "t">>
\* the footer of Scenario C; = stands for the em dash, a character outside
\* every class the patterns name
LineFooter ==
  <<"A", "c", "m", "e", " ", "P", "r", "e", "s", "s", " ", "=", " ", "C",
    "o", "n", "f", "i", "d", "e", "n", "t", "i", "a", "l">>
\* pages as the decoder gives them
PageIntro ==
  <<"1", ".", " ", "I", "n", "t", "r", "o", "d", "u", "c", "t", "i", "o",
    "n", "\n", "p", "l", "a", "n", "t", "s", " ", "m", "a", "k", "e", " ",
    "f", "o", "o", "d", " ", "f", "r", "o", "m", " ", "l", "i", "g", "h",
    "t", " ", "a", "n", "d", " ", "w", "a", "t", "e", "r", " ", "i", "n",
    " ", "t", "h", "e", "i", "r", " ", "g", "r", "e", "e", "n", " ", "l",
    "e", "a", "v", "e", "s", "\n", "r", "o", "o", "t", "s", " ", "t", "a",
    "k", "e", " ", "u", "p", " ", "w", "a", "t", "e", "r", " ", "a", "n",
    "d", " ", "m", "i", "n", "e", "r", "a", "l", "s", " ", "f", "r", "o",
    "m", " ", "t", "h", "e", " ", "s", "o", "i", "l", " ", "a", "r", "o",
    "u", "n", "d", " ", "t", "h", "e", " ", "p", "l", "a", "n", "t">>
PageCells ==
  <<"p", "l", "a", "n", "t", "s", " ", "m", "a", "k", "e", " ", "f", "o",
    "o", "d", " ", "f", "r", "o", "m", " ", "l", "i", "g", "h", "t", " ",
    "a", "n", "d", " ", "w", "a", "t", "e", "r", " ", "i", "n", " ", "t",
    "h", "e", "i", "r", " ", "g", "r", "e", "e", "n", " ", "l", "e", "a",
    "v", "e", "s", "\r", "\n", "C", "E", "L", "L", " ", "S", "T", "R", "U",
    "C", "T", "U", "R", "E", "\r", "\n", "r", "o", "o", "t", "s", " ", "t",
    "a", "k", "e", " ", "u", "p", " ", "w", "a", "t", "e", "r", " ", "a",
    "n", "d", " ", "m", "i", "n", "e", "r", "a", "l", "s", " ", "f", "r",
    "o", "m", " ", "t", "h", "e", " ", "s", "o", "i", "l", " ", "a", "r",
    "o", "u", "n", "d", " ", "t", "h", "e", " ", "p", "l", "a", "n", "t">>
PagePlain ==
  <<" ", " ", "p", "l", "a", "n", "t", "s", " ", "m", "a", "k", "e", " ",
    "f", "o", "o", "d", " ", "f", "r", "o", "m", " ", "l", "i", "g", "h",
    "t", " ", "a", "n", "d", " ", "w", "a", "t", "e", "r", " ", "i", "n",
    " ", "t", "h", "e", "i", "r", " ", "g", "r", "e", "e", "n", " ", "l",
    "e", "a", "v", "e", "s", "\n", "\n", "r", "o", "o", "t", "s", " ", "t",
    "a", "k", "e", " ", "u", "p", " ", "w", "a", "t", "e", "r", " ", "a",
    "n", "d", " ", "m", "i", "n", "e", "r", "a", "l", "s", " ", "f", "r",
    "o", "m", " ", "t", "h", "e", " ", "s", "o", "i", "l", " ", "a", "r",
    "o", "u", "n", "d", " ", "t", "h", "e", " ", "p", "l", "a", "n", "t",
    " ">>
PagePreface ==
  <<"t", "h", "i", "s", " ", "p", "r", "e", "f", "a", "c", "e", " ", "t",
    "h", "a", "n", "k", "s", " ", "t", "h", "e", " ", "m", "a", "n", "y",
    " ", "p", "e", "o", "p", "l", "e", " ", "w", "h", "o", " ", "h", "e",
    "l", "p", "e", "d", " ", "w", "i", "t", "h", " ", "t", "h", "e", " ",
    "b", "o", "o", "k", "\n", "r", "o", "o", "t", "s", " ", "t", "a", "k",
    "e", " ", "u", "p", " ", "w", "a", "t", "e", "r", " ", "a", "n", "d",
    " ", "m", "i", "n", "e", "r", "a", "l", "s", " ", "f", "r", "o", "m",
    " ", "t", "h", "e", " ", "s", "o", "i", "l", " ", "a", "r", "o", "u",
    "n", "d", " ", "t", "h", "e", " ", "p", "l", "a", "n", "t">>
PageIndex ==
  <<"t", "h", "e", " ", "i", "n", "d", "e", "x", " ", "l", "i", "s", "t",
    "s", " ", "e", "v", "e", "r", "y", " ", "t", "e", "r", "m", " ", "t",
    "h", "a", "t", " ", "i", "s", " ", "u", "s", "e", "d", " ", "a", "n",
    "y", "w", "h", "e", "r", "e", " ", "i", "n", " ", "t", "h", "i", "s",
    " ", "b", "o", "o", "k">>
PageNoisy ==
  <<"P", "a", "g", "e", " ", "1", "\n", "C", "h", "a", "p", "t", "e", "r",
    " ", "2", "\n", "U", "n", "i", "t", " ", "3", "\n", "p", "l", "a", "n",
    "t", "s", " ", "m", "a", "k", "e", " ", "f", "o", "o", "d", " ", "f",
    "r", "o", "m", " ", "l", "i", "g", "h", "t", " ", "a", "n", "d", " ",
    "w", "a", "t", "e", "r", " ", "i", "n", " ", "t", "h", "e", "i", "r",
    " ", "g", "r", "e", "e", "n", " ", "l", "e", "a", "v", "e", "s">>
PageConfidential ==
  <<"p", "l", "a", "n", "t", "s", " ", "m", "a", "k", "e", " ", "f", "o",
    "o", "d", " ", "f", "r", "o", "m", " ", "l", "i", "g", "h", "t", " ",
    "a", "n", "d", " ", "w", "a", "t", "e", "r", " ", "i", "n", " ", "t",
    "h", "e", "i", "r", " ", "g", "r", "e", "e", "n", " ", "l", "e", "a",
    "v", "e", "s", "\n", "r", "o", "o", "t", "s", " ", "t", "a", "k", "e",
    " ", "u", "p", " ", "w", "a", "t", "e", "r", " ", "a", "n", "d", " ",
    "m", "i", "n", "e", "r", "a", "l", "s", " ", "f", "r", "o", "m", " ",
    "t", "h", "e", " ", "s", "o", "i", "l", " ", "a", "r", "o", "u", "n",
    "d", " ", "t", "h", "e", " ", "p", "l", "a", "n", "t", "\n", "A", "c",
    "m", "e", " ", "P", "r", "e", "s", "s", " ", "=", " ", "C", "o", "n",
    "f", "i", "d", "e", "n", "t", "i", "a", "l">>
TextBlank ==
  <<" ", " ", "\n", " ">>

PageTexts == {PageIntro, PageCells, PagePlain, PagePreface, PageIndex, PageNoisy}

\* what pdf-parse decodes: the pages separated by form feeds, and numpages
DataOf(pages) == [text |-> JoinWith(pages, <<"\f">>), numpages |-> Len(pages)]

MaxPages == 2
ScenarioPages == 10

\* Scenario C: ten pages, the footer at the bottom of pages 1 and 2
ScenarioC ==
  DataOf([i \in 1..ScenarioPages |->
            IF i <= 2 THEN PageConfidential ELSE PagePlain])

\* the same footer at the bottom of pages 1 to 4 and of page 9
ScenarioHalf ==
  DataOf([i \in 1..ScenarioPages |->
            IF i <= 4 \/ i = 9 THEN PageConfidential ELSE PagePlain])

\* a text without form feeds of a three-page file, a blank text of a two-page
\* file, and nothing at all
DataNoBreaks ==
  [text |-> PagePlain \o <<"\n">> \o PageCells \o <<"\n">> \o PageNoisy,
   numpages |-> 3]
DataBlank == [text |-> TextBlank, numpages |-> 2]

\* a page whose last line is a heading
PageClosing ==
  LineLeaves \o <<"\n">> \o
  <<"P", "L", "A", "N", "T", " ", "T", "I", "S", "S", "U", "E", "S">>

\* a document that ends with a heading
ScenarioClosing == DataOf(<<PageClosing>>)

\* three pages, the first with a page number and a chapter line at its top
ScenarioThird == DataOf(<<PageNoisy, PagePlain, PagePlain>>)
DataEmpty == [text |-> <<>>, numpages |-> 0]

Documents ==
  {DataOf(pages) : pages \in UNION {[1..n -> PageTexts] : n \in 1..MaxPages}}
  \cup {ScenarioC, ScenarioHalf, ScenarioThird, ScenarioClosing, DataNoBreaks,
        DataBlank, DataEmpty}

(***************************************************************************)
(* The request: api/quiz/upload.js calling the services                    *)
(***************************************************************************)
MinExtractedChars == 50
MinOcrChars == 30
MinOcrResultChars == 20
MinQuizChars == 100
DefaultNumQuestions == 5

K_numQuestions == <<"n", "u", "m", "Q", "u", "e", "s", "t", "i", "o", "n", "s">>
K_requestId == <<"r", "e", "q", "u", "e", "s", "t", "I", "d">>

JNaN == [t |-> "nan", v |-> 0]

\* Number(x) of a form field: its digits, or NaN
ToNumber(x) ==
  IF x.t = "num" THEN x
  ELSE IF x.t = "str" /\ x.v # <<>> /\ \A k \in 1..Len(x.v) : IsDigit(x.v[k])
       THEN JNum(DigitsValue(x.v, 1, Len(x.v) + 1, 0))
  ELSE JNaN

\* the values the numQuestions form field may have
NumQuestionFields == {JUndefined, JStr(<<"1">>), JStr(<<"x">>)}

\* the tokens Math.random().toString(36).substring(2, 8) may produce
RandomTokens == { <<"k", "3", "x", "9", "a", "b">>, <<"7", "q", "z">>, <<>> }

Distinct(seq) == \A i, j \in 1..Len(seq) : i # j => seq[i] # seq[j]

\* the tokens that can fill the option Set next to the answer word
TokenDraws(correct) ==
  {d \in [1..3 -> RandomTokens] : Distinct(<<correct>> \o d)}

Providers == <<"google", "ocrspace", "tesseract">>
OcrOutcomes == {TextNone, TextOcrScrap, TextTiny, TextLesson}
PdfTexts == {TextNone, TextTiny, TextBrief, TextLesson, TextChoppy, TextLedger}

NoQuiz == [isArray |-> FALSE, questions |-> <<>>, reason |-> "none"]
NoResponse == [status |-> 0, error |-> "", questions |-> <<>>, reason |-> ""]
IdleGen == [pc |-> "idle", calls |-> <<>>, raw |-> <<>>, src |-> <<"none", "none">>,
            numQuestions |-> JUndefined]

NoData == [text |-> <<>>, numpages |-> 0]
IdleDoc == [pc |-> "idle", mime |-> "", name |-> <<>>, file |-> "none",
            data |-> NoData, stripped |-> <<>>, trimmed |-> <<>>,
            sections |-> <<>>, status |-> 0]

\* the admin page before an upload; selected is NoSelection while the
\* component's state holds null
NoSelection == -1
\* timeLeft while it holds null, and reported while onComplete was not called
NoTimeLeft == -1
NotReported == -1
IdleUi == [pc |-> "admin", data |-> <<>>, questions |-> <<>>, timer |-> 0,
           idx |-> 0, selected |-> NoSelection, locked |-> FALSE,
           finished |-> FALSE, score |-> 0, timeLeft |-> NoTimeLeft,
           reported |-> NotReported]

\* the admin page with an empty topic list and no upload in flight
IdleAdmin == [topics |-> <<>>, uploading |-> FALSE, captured |-> <<>>,
              nextId |-> 1]

\* a unit-by-unit generator before it is called
IdleRun ==
  [pc |-> "idle", ver |-> "none", text |-> <<>>, units |-> <<>>, u |-> 0,
   calls |-> <<>>, parsed |-> JArr(<<>>), qi |-> 0, all |-> <<>>,
   fell |-> {}, rejected |-> {}, norm |-> {}, reason |-> ""]

VARIABLES
  run,       \* a generator that works unit by unit, and its result so far
  hnd,       \* the upload handler deployed: "upload_js" or "part_001"
  ext,       \* the extractPdfText deployed: "python" or "pdfparse"
  hpc,       \* the handler's position
  field,     \* the numQuestions form field of the request
  mimetype,  \* the MIME type of the uploaded file, "" without a file
  tmpFile,   \* the uploaded temporary file: "none", "exists" or "deleted"
  text,      \* the text extracted so far
  ocrRan,    \* whether performOCRIfNeeded was called
  gen,       \* the activation of generateQuizFromText
  quiz,      \* what generateQuizFromText returned
  res,       \* the response sent
  ocr,       \* the provider calls performOCRIfNeeded made, in order
  doc,       \* the request of the section-based handler (part_003)
  ui,        \* the admin page's upload and the quiz component's state
  admin      \* the topic list of the admin page and its upload in flight

vars == <<run, hnd, ext, hpc, field, mimetype, tmpFile, text, ocrRan, ocr, gen, quiz, res, doc, ui, admin>>

Init ==
  /\ hnd \in {"upload_js", "part_001"}
  /\ ext \in {"python", "pdfparse"}
  /\ hpc = "idle"
  /\ field = JUndefined
  /\ mimetype = ""
  /\ tmpFile = "none"
  /\ text = <<>>
  /\ ocrRan = FALSE
  /\ ocr = <<>>
  /\ gen = IdleGen
  /\ quiz = NoQuiz
  /\ res = NoResponse
  /\ doc = IdleDoc
  /\ ui = IdleUi
  /\ admin = IdleAdmin
  /\ run = IdleRun

Respond(status, error, questions, reason) ==
  /\ res' = [status |-> status, error |-> error, questions |-> questions,
             reason |-> reason]
  /\ hpc' = "done"

\* the MIME types a browser may declare for the uploaded file
UploadMimes == {"application/pdf", "text/plain"}

\* handler: the method check, multipart parsing and the write to /tmp
HandlerReceive ==
  /\ hpc = "idle"
  /\ \E method \in {"POST", "GET"},
        upload \in {"native", "formidable", "nofile", "noparser"},
        f \in NumQuestionFields,
        declared \in UploadMimes :
       /\ field' = f
       /\ mimetype' = IF method = "POST" /\ upload \in {"native", "formidable"}
                      THEN declared ELSE ""
       /\ IF method # "POST" THEN
            /\ Respond(405, "Method not allowed", <<>>, "")
            /\ UNCHANGED tmpFile
          ELSE IF upload = "noparser" THEN
            /\ Respond(500, "No multipart parser available", <<>>, "")
            /\ UNCHANGED tmpFile
          ELSE IF upload = "nofile" THEN
            /\ Respond(400, "No file uploaded", <<>>, "")
            /\ UNCHANGED tmpFile
          ELSE
            /\ tmpFile' = "exists"
            /\ hpc' = "saved"
            /\ UNCHANGED res
  /\ UNCHANGED <<run, admin, ocr, ui, doc, hnd, ext, text, ocrRan, gen, quiz>>

\* handler: uploadToS3IfConfigured(tmpPath, ...) reads the file; whether it
\* stores it, does nothing or throws, the handler goes on to the extraction
UploadOriginal ==
  /\ hpc = "saved"
  /\ hpc' = "extract"
  /\ UNCHANGED <<run, admin, mimetype, ocr, ui, doc, hnd, ext, field, tmpFile, text, ocrRan, gen, quiz, res>>

\* extractPdfText of api/services/pdfService.js (Python service): the file is
\* unlinked in the finally block
ExtractPython(decoded, ok) ==
  /\ text' = IF ok THEN decoded ELSE <<>>
  /\ tmpFile' = "deleted"

\* extractPdfText of the pdf-parse version: the file is unlinked after a
\* successful parse only
ExtractPdfParse(decoded, ok) ==
  /\ text' = IF ok THEN cleanText(decoded) ELSE <<>>
  /\ tmpFile' = IF ok THEN "deleted" ELSE tmpFile

TooShort(t, n) == Len(Trim(t)) < n

\* handler: let text = await extractPdfText(tmpPath), then the length test
ExtractPdfText ==
  /\ hpc = "extract"
  /\ \E decoded \in PdfTexts, ok \in BOOLEAN :
       IF ext = "python" THEN ExtractPython(decoded, ok)
       ELSE ExtractPdfParse(decoded, ok)
  /\ hpc' = IF TooShort(text', MinExtractedChars) THEN "ocr" ELSE "generate"
  /\ UNCHANGED <<run, admin, mimetype, ocr, ui, doc, hnd, ext, field, ocrRan, gen, quiz, res>>

\* the same search without the test of the result's length
RECURSIVE OcrFirstAnswer(_, _, _)
OcrFirstAnswer(outcome, fileThere, i) ==
  IF i > Len(Providers) THEN <<>>
  ELSE IF /\ outcome[Providers[i]].configured
          /\ fileThere
          /\ outcome[Providers[i]].ok
       THEN outcome[Providers[i]].text
  ELSE OcrFirstAnswer(outcome, fileThere, i + 1)

\* performOCRIfNeeded: the first configured provider, in order, whose text is
\* longer than 20 characters; a provider that cannot read the file throws
RECURSIVE OcrResult(_, _, _)
OcrResult(outcome, fileThere, i) ==
  IF i > Len(Providers) THEN <<>>
  ELSE IF /\ outcome[Providers[i]].configured
          /\ fileThere
          /\ outcome[Providers[i]].ok
          /\ Len(Trim(outcome[Providers[i]].text)) > MinOcrResultChars
       THEN outcome[Providers[i]].text
  ELSE OcrResult(outcome, fileThere, i + 1)

\* the provider functions performOCRIfNeeded calls, from provider i on, with
\* what each call gave: every configured provider is tried until one returns
\* a text of more than 20 characters
RECURSIVE OcrCalls(_, _, _)
OcrCalls(outcome, fileThere, i) ==
  IF i > Len(Providers) THEN <<>>
  ELSE IF ~outcome[Providers[i]].configured
       THEN OcrCalls(outcome, fileThere, i + 1)
  ELSE LET threw == ~fileThere \/ ~outcome[Providers[i]].ok
           call == [provider |-> Providers[i], threw |-> threw,
                    text |-> IF threw THEN <<>> ELSE outcome[Providers[i]].text]
       IN IF ~threw /\ Len(Trim(call.text)) > MinOcrResultChars
          THEN <<call>>
          ELSE <<call>> \o OcrCalls(outcome, fileThere, i + 1)

ProviderSet == {Providers[i] : i \in 1..Len(Providers)}
\* a provider is not configured, throws, or returns a text
ProviderOutcomes ==
  {[configured |-> FALSE, ok |-> FALSE, text |-> TextNone],
   [configured |-> TRUE, ok |-> FALSE, text |-> TextNone]}
  \cup [configured : {TRUE}, ok : {TRUE}, text : OcrOutcomes]

\* handler: the OCR fallback and the test of its result
PerformOCR ==
  /\ hpc = "ocr"
  /\ \E outcome \in [ProviderSet -> ProviderOutcomes] :
       /\ text' = OcrResult(outcome, tmpFile = "exists", 1)
       /\ ocr' = OcrCalls(outcome, tmpFile = "exists", 1)
  /\ ocrRan' = TRUE
  /\ IF TooShort(text', MinOcrChars)
     THEN Respond(400, "Failed to extract text from PDF", <<>>, "")
     ELSE hpc' = "generate" /\ UNCHANGED res
  /\ UNCHANGED <<run, admin, mimetype, ui, doc, hnd, ext, field, tmpFile, gen, quiz>>

\* Number(parsed.numQuestions || 5) || 5, and without the last || 5
NumQuestionsOf(f) ==
  LET n == ToNumber(IF Truthy(f) THEN f ELSE JNum(DefaultNumQuestions)) IN
    IF hnd = "upload_js" /\ ~(n.t = "num" /\ n.v # 0)
    THEN JNum(DefaultNumQuestions) ELSE n

\* the second argument the handler passes to generateQuizFromText
QuizArgument(f) ==
  IF hnd = "upload_js"
  THEN JObj(<<[key |-> K_numQuestions, val |-> NumQuestionsOf(f)],
              [key |-> K_requestId, val |-> JStr(<<"r">>)]>>)
  ELSE NumQuestionsOf(f)

Return(questions, reason) ==
  /\ quiz' = [isArray |-> FALSE, questions |-> questions, reason |-> reason]
  /\ gen' = [gen EXCEPT !.pc = "returned"]

\* the draws of Math.random() for the first n questions localGenerator builds
RECURSIVE DrawsFor(_, _)
DrawsFor(sentences, n) ==
  IF n = 0 THEN {<<>>}
  ELSE {Append(r, d) : r \in DrawsFor(sentences, n - 1),
                       d \in TokenDraws(CorrectOf(sentences[n]))}

FallbackDraws(t, numQuestions) ==
  LET sentences == Sentences(t)
  IN DrawsFor(sentences, LoopBound(numQuestions, Len(sentences)))

\* generateQuizFromText: the length test and the primary oracle call
GenEnter ==
  /\ hpc = "generate"
  /\ gen.pc = "idle"
  /\ IF TooShort(text, MinQuizChars)
     THEN /\ quiz' = [isArray |-> FALSE, questions |-> <<>>, reason |-> "Text too short"]
          /\ gen' = [gen EXCEPT !.pc = "returned", !.numQuestions = QuizArgument(field)]
     ELSE /\ gen' = [gen EXCEPT !.pc = "awaitPrimary", !.calls = <<"Primary">>,
                                !.numQuestions = QuizArgument(field)]
          /\ UNCHANGED quiz
  /\ UNCHANGED <<run, admin, mimetype, ocr, ui, doc, hnd, ext, hpc, field, tmpFile, text, ocrRan, res>>

Awaiting == gen.pc \in {"awaitPrimary", "awaitRetry"}

\* the oracle answers the call in flight
OracleReturns ==
  /\ Awaiting
  /\ \E o \in OracleOutputs :
       gen' = [gen EXCEPT !.pc = IF gen.pc = "awaitPrimary" THEN "gotPrimary" ELSE "gotRetry",
                          !.raw = Render(o[1], o[2]),
                          !.src = o]
  /\ UNCHANGED <<run, admin, mimetype, ocr, ui, doc, hnd, ext, hpc, field, tmpFile, text, ocrRan, quiz, res>>

\* the oracle call rejects (network, auth, rate limit)
OracleThrows ==
  /\ Awaiting
  /\ gen' = [gen EXCEPT !.pc = "threw"]
  /\ UNCHANGED <<run, admin, mimetype, ocr, ui, doc, hnd, ext, hpc, field, tmpFile, text, ocrRan, quiz, res>>

\* the oracle never answers the call in flight
OracleSilent ==
  /\ Awaiting
  /\ gen' = [gen EXCEPT !.pc = "hung"]
  /\ UNCHANGED <<run, admin, mimetype, ocr, ui, doc, hnd, ext, hpc, field, tmpFile, text, ocrRan, quiz, res>>

\* generateQuizFromText after the primary call: validate, or retry
AfterPrimary(parsed) ==
  IF validateQuestionsArray(parsed)
  THEN Return(parsed.v, "AI primary success")
  ELSE /\ gen' = [gen EXCEPT !.pc = "awaitRetry",
                             !.calls = Append(gen.calls, "Retry")]
       /\ UNCHANGED quiz

GenAfterPrimary ==
  /\ gen.pc = "gotPrimary"
  /\ AfterPrimary(tryParseAIResponse(gen.raw))
  /\ UNCHANGED <<run, admin, mimetype, ocr, ui, doc, hnd, ext, hpc, field, tmpFile, text, ocrRan, res>>

\* generateQuizFromText after the retry: validate, or fall back
AfterRetry(parsed) ==
  IF validateQuestionsArray(parsed)
  THEN Return(parsed.v, "AI retry success")
  ELSE \E rnd \in FallbackDraws(text, gen.numQuestions) :
         Return(localGenerator(text, gen.numQuestions, rnd),
                "AI invalid, local fallback")

GenAfterRetry ==
  /\ gen.pc = "gotRetry"
  /\ AfterRetry(tryParseAIResponse(gen.raw))
  /\ UNCHANGED <<run, admin, mimetype, ocr, ui, doc, hnd, ext, hpc, field, tmpFile, text, ocrRan, res>>

\* generateQuizFromText: the catch block
GenCatch ==
  /\ gen.pc = "threw"
  /\ \E rnd \in FallbackDraws(text, gen.numQuestions) :
       Return(localGenerator(text, gen.numQuestions, rnd), "OpenRouter error")
  /\ UNCHANGED <<run, admin, mimetype, ocr, ui, doc, hnd, ext, hpc, field, tmpFile, text, ocrRan, res>>

\* handler: the test of the quiz and the response
HandlerRespond ==
  /\ hpc = "generate"
  /\ gen.pc = "returned"
  /\ IF hnd = "upload_js"
     THEN IF ~quiz.isArray \/ Len(quiz.questions) = 0
          THEN Respond(500, "Failed to generate quiz", <<>>, "")
          ELSE Respond(200, "", quiz.questions, "")
     ELSE Respond(200, "", quiz.questions, quiz.reason)
  /\ UNCHANGED <<run, admin, mimetype, ocr, ui, doc, hnd, ext, field, tmpFile, text, ocrRan, gen, quiz>>

Next ==
  \/ HandlerReceive
  \/ UploadOriginal
  \/ ExtractPdfText
  \/ PerformOCR
  \/ GenEnter
  \/ OracleReturns
  \/ OracleThrows
  \/ OracleSilent
  \/ GenAfterPrimary
  \/ GenAfterRetry
  \/ GenCatch
  \/ HandlerRespond

Spec == Init /\ [][Next]_vars

(***************************************************************************)
(* Vocabulary of the properties                                            *)
(***************************************************************************)
AiReasons == {"AI primary success", "AI retry success", "AI generated"}
FallbackReasons == {"AI invalid, local fallback", "OpenRouter error"}

\* s, or its repair, is a JSON text
ParsesAfterRepair(s) ==
  JsonParse(s).ok \/ JsonParse(repairJsonString(s)).ok

\* some extraction stage yields a string that parses, as it is or repaired
ParsesSomehow(raw) ==
  \E s \in {findJsonCodeBlock(raw), findBalanced(raw), repairJsonString(raw)} \ {Null} :
    ParsesAfterRepair(s)

\* the attempt succeeded in the sense of the design: JSON was found, and it
\* is a valid list of questions
Accepted(raw) ==
  ParsesSomehow(raw) /\ validateQuestionsArray(tryParseAIResponse(raw))

GotOutput == gen.pc \in {"gotPrimary", "gotRetry"}

\* the options of question q, lower-cased
OptionsLower(q) ==
  [k \in 1..Len(Get(q, K_options).v) |-> ToLowerCase(Get(q, K_options).v[k].v)]

\* 4 options, pairwise distinct without regard to case, and a correct
\* indicator naming one of them
WellFormedQuestion(q) ==
  /\ Get(q, K_options).t = "arr"
  /\ Len(Get(q, K_options).v) = 4
  /\ \A k \in 1..4 : Get(q, K_options).v[k].t = "str"
  /\ Distinct(OptionsLower(q))
  /\ Get(q, K_correct).t = "num"
  /\ Get(q, K_correct).v \in 1..4

(***************************************************************************)
(* The properties                                                          *)
(***************************************************************************)
\* C1: one call of generateQuizFromText follows the state machine of the
\* design: after the primary call an accepted output is returned as
\* "AI primary success" with no further call, any other output leads to
\* exactly one retry call; after the retry an accepted output is returned as
\* "AI retry success", any other gives the fallback result; a call that
\* throws gives the fallback result with no further call.
C1_Step ==
  /\ gen.pc = "gotPrimary" =>
        IF Accepted(gen.raw)
        THEN /\ gen'.pc = "returned"
             /\ quiz'.reason = "AI primary success"
             /\ gen'.calls = <<"Primary">>
        ELSE /\ gen'.pc = "awaitRetry"
             /\ gen'.calls = <<"Primary", "Retry">>
  /\ gen.pc = "gotRetry" =>
        /\ gen'.pc = "returned"
        /\ gen'.calls = <<"Primary", "Retry">>
        /\ quiz'.reason = IF Accepted(gen.raw) THEN "AI retry success"
                          ELSE "AI invalid, local fallback"
  /\ gen.pc = "threw" =>
        /\ gen'.pc = "returned"
        /\ gen'.calls = gen.calls
        /\ quiz'.reason \in FallbackReasons

C1_StateMachine == [][C1_Step]_vars

\* C2: an attempt whose raw output yields no parseable JSON is never
\* returned as an AI-generated result.
C2_UnparseableNeverAi ==
  (gen.pc = "returned" /\ quiz.reason \in AiReasons) => ParsesSomehow(gen.raw)

\* C3: for a text long enough for quiz generation the pipeline ends with a
\* success response holding at least one question, whatever the oracle
\* does; generateQuizFromText never returns an empty list under a reason
\* other than "Text too short".
C3_QuizOrRejection ==
  /\ (hpc = "done" /\ gen.pc # "idle" /\ ~TooShort(text, MinQuizChars)) =>
        (res.status = 200 /\ Len(res.questions) >= 1)
  /\ (gen.pc = "returned" /\ quiz.questions = <<>>) =>
        quiz.reason = "Text too short"

\* C4: every question generateQuizFromText returns has exactly 4 options,
\* pairwise distinct without regard to case, and a correct indicator that
\* names one of them.
C4_QuestionsWellFormed ==
  gen.pc = "returned" =>
    \A i \in 1..Len(quiz.questions) : WellFormedQuestion(quiz.questions[i])

\* C5: an oracle failure is absorbed: the result of generateQuizFromText
\* carries a reason, and after a fallback caused by the oracle the handler
\* does not answer with an error.
C5_OracleFailureAbsorbed ==
  /\ gen.pc = "returned" => quiz.reason # "none"
  /\ (hpc = "done" /\ gen.pc = "returned" /\ quiz.reason \in FallbackReasons) =>
        res.status < 400

\* C6: generateQuizFromText returns even if an oracle call never answers:
\* in a state where the call in flight will not be answered, a further step
\* (the timeout that abandons the call) is possible.
C6_AlwaysReturns ==
  gen.pc = "hung" => ENABLED Next

\* C7: when the handler has answered, the temporary file it or the parser
\* wrote is deleted.
C7_TempFileReleased ==
  (hpc = "done" /\ tmpFile # "none") => tmpFile = "deleted"

\* C8: an upload whose text is too short for quiz generation is answered
\* with a 4xx status, never with a success or a 5xx.
C8_TooShortRejected ==
  (hpc = "done" /\ tmpFile # "none" /\ TooShort(text, MinQuizChars)) =>
    res.status \in 400..499

\* C9: an oracle output that embeds a valid array J in a code fence, in
\* prose or with trailing commas is normalized to exactly J, and validates.
C9_NormalizerRoundTrip ==
  (GotOutput /\ gen.src[1] \in EmbeddingForms /\ gen.src[2] \in ValidBatches) =>
    /\ tryParseAIResponse(gen.raw) = Batches[gen.src[2]]
    /\ validateQuestionsArray(tryParseAIResponse(gen.raw))

\* C10: an output whose root is an object with a valid questions array is
\* returned as an AI-generated result holding those questions, with no
\* retry and no fallback.
C10_Step ==
  (GotOutput /\ gen.src[1] = "object" /\ gen.src[2] \in ValidBatches) =>
    /\ gen'.pc = "returned"
    /\ gen'.calls = gen.calls
    /\ quiz'.reason \in AiReasons
    /\ quiz'.questions = Batches[gen.src[2]].v

C10_ObjectRootAccepted == [][C10_Step]_vars

(***************************************************************************)
(* The section-based upload handler (part_003) calling                     *)
(* parsePdfBufferToSections                                                *)
(***************************************************************************)
ALLOWED_MIMES == {"application/pdf"}

NameUpperPdf == <<"n", "o", "t", "e", "s", ".", "P", "D", "F">>
NameTxt == <<"n", "o", "t", "e", "s", ".", "t", "x", "t">>
ExtPdf == <<".", "p", "d", "f">>

\* path.extname(name): from the last dot on, unless the name starts with it
ExtName(name) ==
  LET d == LastIn({k \in 1..Len(name) : name[k] = "."})
  IN IF d <= 1 THEN <<>> ELSE Slice(name, d, Len(name))

\* the validation of the handler: the MIME type, else the extension
AllowedUpload(mime, name) ==
  mime \in ALLOWED_MIMES \/ ToLowerCase(ExtName(name)) = ExtPdf

reqVars == <<hnd, ext, hpc, field, mimetype, tmpFile, text, ocrRan, ocr, gen, quiz, res>>

\* handler: the method check, form.parse and the validation of the file
SectionsReceive ==
  /\ doc.pc = "idle"
  /\ \E method \in {"POST", "GET"},
        form \in {"ok", "error", "nofile", "nopath"},
        mime \in {"application/pdf", "text/plain"},
        name \in {NameUpperPdf, NameTxt} :
       doc' = IF method # "POST"
              THEN [doc EXCEPT !.pc = "done", !.status = 405]
              ELSE IF form # "ok"
              THEN [doc EXCEPT !.pc = "done", !.status = 400]
              ELSE IF ~AllowedUpload(mime, name)
              THEN [doc EXCEPT !.pc = "done", !.status = 400, !.mime = mime,
                               !.name = name, !.file = "deleted"]
              ELSE [doc EXCEPT !.pc = "read", !.mime = mime, !.name = name,
                               !.file = "exists"]
  /\ UNCHANGED <<reqVars, ui, admin, run>>

\* what the handler holds after parsePdfBufferToSections(buffer) returned
ParsedTo(data, stripped, trimmed) ==
  [doc EXCEPT !.pc = "done", !.status = 200, !.file = "deleted",
              !.data = data, !.stripped = stripped, !.trimmed = trimmed,
              !.sections = extractSectionsFromPagesWithAssets(
                             trimmed, DEFAULT_MIN_SECTION_CHARS)]

\* handler: readFile, parsePdfBufferToSections, the response, and the unlink
\* of the finally block; no quiz service exports generateQuizFromSection
Parsed(data, stripped) ==
  ParsedTo(data, stripped, removeFrontAndBackMatter(PageObjects(stripped)))

SectionsParse ==
  /\ doc.pc = "read"
  /\ \E data \in Documents, ok \in BOOLEAN :
       doc' = IF ok
              THEN Parsed(data, pagesWithoutHeaderFooter(data))
              ELSE [doc EXCEPT !.pc = "done", !.status = 500,
                               !.file = "deleted"]
  /\ UNCHANGED <<reqVars, ui, admin, run>>

DocInit ==
  /\ hnd = "part_003"
  /\ ext = "pdfparse"
  /\ hpc = "idle"
  /\ field = JUndefined
  /\ mimetype = ""
  /\ tmpFile = "none"
  /\ text = <<>>
  /\ ocrRan = FALSE
  /\ ocr = <<>>
  /\ gen = IdleGen
  /\ quiz = NoQuiz
  /\ res = NoResponse
  /\ doc = IdleDoc
  /\ ui = IdleUi
  /\ admin = IdleAdmin
  /\ run = IdleRun

DocNext ==
  \/ SectionsReceive
  \/ SectionsParse

DocSpec == DocInit /\ [][DocNext]_vars

SectionsDone == doc.pc = "done" /\ doc.status = 200

\* C11: header/footer stripping is idempotent: applied to the pages it
\* returned, removeRepeatingHeadersFooters returns them unchanged.
C11_StrippingIdempotent ==
  SectionsDone => removeRepeatingHeadersFooters(doc.stripped) = doc.stripped

\* the lines of the segmenter's input that are no headings, in order
BodyLines(pageObjects) ==
  LET lwp == LinesWithPage(pageObjects)
      body == SelectSeq(lwp, LAMBDA e : detectHeading(e.line) = NoHeading)
  IN [k \in 1..Len(body) |-> body[k].line]

HasHeading(pageObjects) == CandidatesOf(LinesWithPage(pageObjects)) # <<>>

\* the lines of the sections' contents, in order
RECURSIVE ContentLines(_)
ContentLines(sections) ==
  IF sections = <<>> THEN <<>>
  ELSE TrimmedLines(sections[1].content) \o ContentLines(Tail(sections))

\* C12: when some line of the cleaned pages is a heading, the contents of the
\* sections, concatenated in order, are exactly the lines of the input that
\* are no headings: none dropped (those before the first heading included),
\* none duplicated.
C12_TotalCoverage ==
  SectionsDone /\ HasHeading(doc.trimmed)
    => ContentLines(doc.sections) = BodyLines(doc.trimmed)

\* the only section is the one titled Full Document spanning first..last
IsFullDocument(sections, first, last) ==
  /\ Len(sections) = 1
  /\ sections[1].title = FullDocument
  /\ sections[1].startPage = first
  /\ sections[1].endPage = last

\* C13 as stated: when no line of any page of the document is a heading, the
\* segmenter returns one section titled Full Document whose startPage is 1
\* and whose endPage is the last page of the document.
C13_FullDocumentAllPages ==
  SectionsDone /\ ~HasHeading(PageObjects(doc.stripped))
    => IsFullDocument(doc.sections, 1, Len(doc.stripped))

\* C13 amended: when no line of the pages kept by the front and back matter
\* trimming is a heading, the segmenter returns one section titled Full
\* Document whose startPage and endPage are the numbers of the first and the
\* last page kept, and whose content is the text of the pages kept.
C13_FullDocumentKeptPages ==
  SectionsDone /\ ~HasHeading(doc.trimmed)
    => /\ doc.trimmed # <<>>
       /\ IsFullDocument(doc.sections, doc.trimmed[1].page,
                         doc.trimmed[Len(doc.trimmed)].page)
       /\ doc.sections[1].content =
            JoinWith([i \in 1..Len(doc.trimmed) |-> doc.trimmed[i].text],
                     <<"\n", "\n">>)

\* a document without headings whose first page was trimmed as front matter
C13_FrontMatterTrimmed ==
  /\ SectionsDone
  /\ ~HasHeading(PageObjects(doc.stripped))
  /\ Len(doc.stripped) > 1
  /\ doc.trimmed[1].page > 1
  /\ Len(doc.sections) = 1

\* the lines that look like boilerplate and end at least two pages
RepeatedFooters(pages) ==
  {l \in {BottomLines(TrimmedLines(pages[p]))[Len(BottomLines(TrimmedLines(pages[p])))] :
            p \in {q \in 1..Len(pages) : TrimmedLines(pages[q]) # <<>>}} :
     /\ isLikelyHeaderFooter(l)
     /\ Cardinality({p \in 1..Len(pages) :
                       /\ TrimmedLines(pages[p]) # <<>>
                       /\ TrimmedLines(pages[p])[Len(TrimmedLines(pages[p]))] = l}) >= 2}

\* no line of the set is a line of a page or of a section's content
NowhereLeft(lines, pages, sections) ==
  /\ \A p \in 1..Len(pages) : SeqRange(TrimmedLines(pages[p])) \cap lines = {}
  /\ \A i \in 1..Len(sections) :
       SeqRange(TrimmedLines(sections[i].content)) \cap lines = {}

EndsWithNone(pages, footers) ==
  \A p \in 1..Len(pages) :
    TrimmedLines(pages[p]) # <<>>
      => TrimmedLines(pages[p])[Len(TrimmedLines(pages[p]))] \notin footers

C18_EvenSplitWithoutBreaks ==
  SectionsDone /\ doc.data.numpages > 1
               /\ (\A k \in 1..Len(doc.data.text) : doc.data.text[k] # "\f")
    => /\ Len(extractPagesText(doc.data)) = doc.data.numpages
       /\ extractPagesText(doc.data) =
            splitTextByApproxPages(doc.data.text, doc.data.numpages)


FromLocalGenerator == gen.pc = "returned" /\ quiz.reason \in FallbackReasons

\* min(desired count, number of qualifying sentences), 0 when the desired
\* count is no number or less than 1
ExpectedCount(want, sentences) ==
  IF want.t = "num" /\ want.v >= 1 THEN Min(want.v, Len(sentences)) ELSE 0

\* question q is the one localGenerator builds from sentence s as number i
BuiltFrom(q, s, i) ==
  \E tokens \in TokenDraws(CorrectOf(s)) : q = LocalQuestion(s, i, tokens)

\* C15: for the count the caller passes, localGenerator returns
\* min(desired count, number of sentences longer than 30 characters)
\* questions, one per qualifying sentence in text order: a non-empty list
\* when there is such a sentence and the count is at least 1, else an empty
\* one.
C15_FallbackCount ==
  FromLocalGenerator =>
    /\ Len(quiz.questions) =
         ExpectedCount(NumQuestionsOf(field), Sentences(text))
    /\ \A i \in 1..Len(quiz.questions) :
         BuiltFrom(quiz.questions[i], Sentences(text)[i], i)

\* the words of s with the k-th one replaced by the blank
BlankedAt(s, k) ==
  LET words == SplitWords(s, 1)
  IN JoinWith([m \in 1..Len(words) |-> IF m = k THEN Blank ELSE words[m]],
              <<" ">>)

\* question q blanks the k-th word of s: the stem is s with that word
\* replaced, the word is a longest one among those with a letter, the options
\* are 4 distinct strings, and correct is the position of the word, without
\* its punctuation, among them
BlanksWord(q, s, k) ==
  LET words == SplitWords(s, 1) IN
    /\ HasLetter(words[k])
    /\ \A m \in 1..Len(words) : HasLetter(words[m]) => Len(words[m]) <= Len(words[k])
    /\ Get(q, K_question) = JStr(BlankedAt(s, k))
    /\ Get(q, K_options).t = "arr"
    /\ Len(Get(q, K_options).v) = 4
    /\ Distinct(Get(q, K_options).v)
    /\ Get(q, K_correct).t = "num"
    /\ Get(q, K_correct).v \in 1..4
    /\ Get(q, K_options).v[Get(q, K_correct).v] = JStr(KeepAlnumDash(words[k]))

\* C16: every question localGenerator builds from a qualifying sentence has
\* as its stem the sentence with exactly one word, its longest alphabetic
\* word, replaced by a blank; its 4 options are distinct and include that
\* word; and its correct index designates the option equal to that word.
C16_OneWordBlanked ==
  FromLocalGenerator =>
    \A i \in 1..Min(Len(quiz.questions), Len(Sentences(text))) :
      \E k \in 1..Len(SplitWords(Sentences(text)[i], 1)) :
        BlanksWord(quiz.questions[i], Sentences(text)[i], k)

(***************************************************************************)
(* The OCR fallback: performOCRIfNeeded and the handler's use of it        *)
(***************************************************************************)
\* position of provider p in the priority order
Priority(p) == FirstIn({i \in 1..Len(Providers) : Providers[i] = p})

\* the call returned a text of more than 20 characters
Succeeded(call) == ~call.threw /\ Len(Trim(call.text)) > MinOcrResultChars

\* the step in which the handler calls performOCRIfNeeded
OcrInvoked == ~ocrRan /\ ocrRan'

\* C19: the OCR fallback is invoked only when the extracted text is shorter
\* than 50 characters; the providers are called in the order Google Vision,
\* OCR.Space, Tesseract; a provider that throws or returns 20 characters or
\* fewer is passed over and the search stops at the first provider whose
\* text is longer; that text is returned; with no provider configured or
\* none succeeding the result is the empty text, no error is raised, and
\* the handler answers 400 with the extraction failure.
C19_OcrFallback ==
  [][OcrInvoked =>
       /\ TooShort(text, MinExtractedChars)
       /\ \A i \in 1..Len(ocr') : \A j \in 1..Len(ocr') :
            i < j => /\ Priority(ocr'[i].provider) < Priority(ocr'[j].provider)
                     /\ ~Succeeded(ocr'[i])
       /\ IF ocr' # <<>> /\ Succeeded(ocr'[Len(ocr')])
          THEN text' = ocr'[Len(ocr')].text
          ELSE /\ text' = <<>>
               /\ res'.status = 400
               /\ res'.error = "Failed to extract text from PDF"]_vars

\* a provider threw, a later one returned the text the handler goes on with
C19_SkippedThenWon ==
  /\ ocrRan
  /\ Len(ocr) >= 2
  /\ ocr[1].threw
  /\ Succeeded(ocr[Len(ocr)])
  /\ text = ocr[Len(ocr)].text
  /\ hpc = "generate"

(***************************************************************************)
(* File upload security: README.md, Deployment & Security Checklist        *)
(***************************************************************************)
\* a file was uploaded whose MIME type is not application/pdf
NonPdfUpload == mimetype # "" /\ mimetype \notin ALLOWED_MIMES

\* C20: an upload whose MIME type is not application/pdf is rejected with
\* an error response before any text extraction, OCR or quiz generation:
\* the handler never gets past the extraction with such a file, and its
\* response is an error.
C20_NonPdfRejected ==
  NonPdfUpload =>
    /\ hpc \in {"saved", "extract", "done"}
    /\ ~ocrRan
    /\ gen.pc = "idle"
    /\ hpc = "done" => res.status >= 400

(***************************************************************************)
(* The admin page's import and the quiz component:                         *)
(* src/pages/Admin.jsx and the Quiz component (part_013)                   *)
(***************************************************************************)
K_answer == <<"a", "n", "s", "w", "e", "r">>
K_opts == <<"o", "p", "t", "s">>
MaxImported == 2

\* the question lists localGenerator returns for a document
LocalLists ==
  UNION {{localGenerator(t, JNum(n), rnd) : rnd \in FallbackDraws(t, JNum(n))} :
           t \in {TextLesson, TextLedger}, n \in 1..MaxImported}

\* the question lists generateQuizFromText accepts from the oracle
OracleLists ==
  {tryParseAIResponse(Render("bare", b)).v :
     b \in {c \in DOMAIN Batches :
              /\ validateQuestionsArray(tryParseAIResponse(Render("bare", c)))
              /\ Len(tryParseAIResponse(Render("bare", c)).v) > 0}}

\* data.questions of a 200 response
BackendLists == LocalLists \cup OracleLists

\* a || b of JavaScript
OrValue(a, b) == IF Truthy(a) THEN a ELSE b

\* a ?? b of JavaScript
Coalesce(a, b) == IF a.t \in {"null", "undefined"} THEN b ELSE a

EmptyOptions == JArr(<<JStr(<<>>), JStr(<<>>), JStr(<<>>), JStr(<<>>)>>)

\* handleUploadPdf: the question of the new topic made from q, the i-th
\* (counted from 0) question of the response
ImportedQuestion(q, i) ==
  [id |-> OrValue(Get(q, K_id), JStr(NatChars(i + 1))),
   question |-> Get(q, K_question),
   options |-> OrValue(Get(q, K_options), OrValue(Get(q, K_opts), EmptyOptions)),
   correct |-> IF Get(q, K_answer).t = "num" THEN Get(q, K_answer)
               ELSE Coalesce(Get(q, K_correct), JNum(0)),
   hint |-> OrValue(Get(q, K_hint), JStr(<<>>)),
   explanation |-> OrValue(Get(q, K_explanation), JStr(<<>>)),
   answer |-> IF Truthy(Get(q, K_answer)) /\ Get(q, K_answer).t # "num"
              THEN Get(q, K_answer) ELSE JUndefined]

\* i === v for an option index i and a JavaScript value v
StrictEqualsIndex(i, v) == v.t = "num" /\ v.v = i

\* the option indexes the locked question card marks as correct
Highlighted(u) ==
  IF u.locked
  THEN {i \in 0..(Len(u.questions[u.idx + 1].options.v) - 1) :
          StrictEqualsIndex(i, u.questions[u.idx + 1].correct)}
  ELSE {}

\* handleUploadPdf: a 200 response with questions becomes the active topic
\* of the admin page, with timer 0
handleUploadPdf ==
  /\ ui.pc = "admin"
  /\ \E questions \in BackendLists :
       ui' = [IdleUi EXCEPT
                !.pc = "topic",
                !.data = questions,
                !.questions = [k \in 1..Len(questions) |->
                                 ImportedQuestion(questions[k], k - 1)]]
  /\ UNCHANGED <<reqVars, doc, admin, run>>

MaxTimer == 2

\* handleUpdateTopic(id, "timer", value): the admin gives the topic a timer
handleUpdateTopic ==
  /\ ui.pc = "topic"
  /\ ui.timer = 0
  /\ ui' = [ui EXCEPT !.timer = MaxTimer]
  /\ UNCHANGED <<reqVars, doc, admin, run>>

\* Quiz({ topic, ... }): the component is mounted with the topic; a topic
\* without questions cannot be played
Quiz ==
  /\ ui.pc = "topic"
  /\ Len(ui.questions) > 0
  /\ ui' = [ui EXCEPT !.pc = "quiz",
                      !.timeLeft = IF ui.timer # 0 THEN ui.timer ELSE NoTimeLeft]
  /\ UNCHANGED <<reqVars, doc, admin, run>>

\* the countdown effect: it returns at once when timeLeft is null or 0 or the
\* quiz is finished; else it finishes the quiz when timeLeft <= 0 and
\* otherwise sets timeLeft - 1 after a second
Countdown ==
  /\ ui.pc = "quiz"
  /\ ~(ui.timeLeft = NoTimeLeft \/ ui.timeLeft = 0 \/ ui.finished)
  /\ ui' = IF ui.timeLeft <= 0
           THEN [ui EXCEPT !.finished = TRUE, !.reported = ui.score]
           ELSE [ui EXCEPT !.timeLeft = ui.timeLeft - 1]
  /\ UNCHANGED <<reqVars, doc, admin, run>>

\* handleSelect(i)
handleSelect ==
  /\ ui.pc = "quiz"
  /\ ~ui.finished
  /\ ~ui.locked
  /\ \E i \in 0..(Len(ui.questions[ui.idx + 1].options.v) - 1) :
       ui' = [ui EXCEPT
                !.selected = i,
                !.locked = TRUE,
                !.score = IF StrictEqualsIndex(i, ui.questions[ui.idx + 1].correct)
                          THEN ui.score + 1 ELSE ui.score]
  /\ UNCHANGED <<reqVars, doc, admin, run>>

\* handleNext
handleNext ==
  /\ ui.pc = "quiz"
  /\ ~ui.finished
  /\ ui.locked
  /\ ui' = [ui EXCEPT
              !.selected = NoSelection,
              !.locked = FALSE,
              !.idx = IF ui.idx + 1 < Len(ui.questions) THEN ui.idx + 1 ELSE ui.idx,
              !.finished = ~(ui.idx + 1 < Len(ui.questions)),
              !.reported = IF ui.idx + 1 < Len(ui.questions) THEN ui.reported
                           ELSE ui.score]
  /\ UNCHANGED <<reqVars, doc, admin, run>>

UiInit ==
  /\ hnd = "upload_js"
  /\ ext = "pdfparse"
  /\ hpc = "idle"
  /\ field = JUndefined
  /\ mimetype = ""
  /\ tmpFile = "none"
  /\ text = <<>>
  /\ ocrRan = FALSE
  /\ ocr = <<>>
  /\ gen = IdleGen
  /\ quiz = NoQuiz
  /\ res = NoResponse
  /\ doc = IdleDoc
  /\ ui = IdleUi
  /\ admin = IdleAdmin
  /\ run = IdleRun

UiNext ==
  \/ handleUploadPdf
  \/ handleUpdateTopic
  \/ Quiz
  \/ Countdown
  \/ handleSelect
  \/ handleNext

UiSpec == UiInit /\ [][UiNext]_vars

\* the index, counted from 0, of the option that question q of the backend
\* designates with its 1-based correct
DesignatedIndex(q) == Get(q, K_correct).v - 1

\* the step is a click on an option of the current question
Answering == ui.pc = "quiz" /\ ~ui.locked /\ ui'.locked

\* C17: one correct-answer convention end to end: when an option of an
\* imported backend question is clicked, the option the quiz component
\* highlights as correct is the one the backend designated, and the click
\* scores exactly when it is on that option.
C17_OneConvention ==
  [][Answering =>
       /\ Highlighted(ui') = {DesignatedIndex(ui.data[ui.idx + 1])}
       /\ (ui'.score = ui.score + 1) <=>
            (ui'.selected = DesignatedIndex(ui.data[ui.idx + 1]))]_vars

(***************************************************************************)
(* Header and footer promotion                                             *)
(***************************************************************************)
\* the sampled pages that have line l among their first 2 (last 2)
\* non-blank lines
PagesWithTop(pages, l) ==
  {p \in 1..SampleCount(pages) : l \in SeqRange(TopLines(TrimmedLines(pages[p])))}
PagesWithBottom(pages, l) ==
  {p \in 1..SampleCount(pages) : l \in SeqRange(BottomLines(TrimmedLines(pages[p])))}

\* line l recurs on at least 50% of the sampled pages given as withLine
InHalfOfSample(pages, withLine) == 2 * Cardinality(withLine) >= SampleCount(pages)

\* page text after is page text before less the lines before position a and
\* the lines after position a + (number of lines kept) - 1
KeepsFrom(before, after, a) ==
  SubSeq(TrimmedLines(before), a, a + Len(TrimmedLines(after)) - 1)
    = TrimmedLines(after)

\* the lines at the top and at the bottom of before that are not in after
\* are justified: each is boilerplate found on half of the sampled pages
JustifiedStrip(pages, before, after, a) ==
  /\ \A k \in 1..(a - 1) :
       /\ isLikelyHeaderFooter(TrimmedLines(before)[k])
       /\ InHalfOfSample(pages, PagesWithTop(pages, TrimmedLines(before)[k]))
  /\ \A k \in (a + Len(TrimmedLines(after)))..Len(TrimmedLines(before)) :
       /\ isLikelyHeaderFooter(TrimmedLines(before)[k])
       /\ InHalfOfSample(pages, PagesWithBottom(pages, TrimmedLines(before)[k]))

\* C24: a line is stripped as a header (footer) only if it is among the
\* first 2 (last 2) non-blank lines of at least 50% of the sampled pages, the
\* first min(8, n), and satisfies isLikelyHeaderFooter; a line on fewer than
\* half of the sampled pages is never stripped.
C24_StrippedOnlyIfHalf ==
  SectionsDone =>
    \A p \in 1..Len(doc.stripped) :
      \E a \in 1..(Len(TrimmedLines(cleanedPages(doc.data)[p]))
                     - Len(TrimmedLines(doc.stripped[p])) + 1) :
        /\ KeepsFrom(cleanedPages(doc.data)[p], doc.stripped[p], a)
        /\ JustifiedStrip(cleanedPages(doc.data), cleanedPages(doc.data)[p],
                          doc.stripped[p], a)

(***************************************************************************)
(* The section list after the merge pass                                   *)
(***************************************************************************)
\* every section has startPage <= endPage, and each section begins on the
\* page where its predecessor ends
PageOrdered(sections) ==
  /\ \A i \in 1..Len(sections) : sections[i].startPage <= sections[i].endPage
  /\ \A i \in 1..(Len(sections) - 1) :
       sections[i + 1].startPage = sections[i].endPage

\* C25: in every section list the segmenter returns after the merge pass,
\* every section has startPage <= endPage, the sections are in page order,
\* each beginning on the page where its predecessor ends, and no section has
\* empty content.
C25_SectionsOrderedNonEmpty ==
  SectionsDone /\ HasHeading(doc.trimmed) =>
    /\ PageOrdered(doc.sections)
    /\ \A i \in 1..Len(doc.sections) : doc.sections[i].content # <<>>

(***************************************************************************)
(* The level of a numbered heading                                         *)
(***************************************************************************)
\* the end of the dot-separated digit groups \d+(\.\d+)* from position i: a
\* dot belongs to the numbering only when a digit follows it
RECURSIVE InnerNumberingEnd(_, _)
InnerNumberingEnd(s, i) ==
  LET a == SkipDigits(s, i) IN
    IF a > i /\ a < Len(s) /\ s[a] = "." /\ IsDigit(s[a + 1])
    THEN InnerNumberingEnd(s, a + 1) ELSE a

\* the number of dots inside the numbering of s
InnerDots(s) == CountChar(s, ".", 1, InnerNumberingEnd(s, 1) - 1)

\* the rule of detectHeading that is the first to match the line
FirstRule(s) ==
  CASE MatchesNumbered(s) -> "numbered"
    [] ~MatchesNumbered(s) /\ MatchesChapter(s) -> "chapter"
    [] ~MatchesNumbered(s) /\ ~MatchesChapter(s) /\ IsCapsHeading(s) -> "caps"
    [] OTHER -> IF IsTitleCaseHeading(s) THEN "title" ELSE "none"

\* C26: detectHeading decides by the first rule that matches, in the order
\* numbered, Chapter N, all-caps, title-case; the level of a numbered
\* heading is the number of dots inside its numbering plus 1, the optional
\* trailing '.', ')' or ':' not counted: '1 Introduction' and
\* '1. Introduction' have level 1, '1.1 Motivation' has level 2.
C26_HeadingLevel ==
  SectionsDone =>
    \A k \in 1..Len(LinesWithPage(doc.trimmed)) :
      LET line == LinesWithPage(doc.trimmed)[k].line IN
        /\ FirstRule(line) = "numbered" =>
             detectHeading(line).level = InnerDots(line) + 1
        /\ FirstRule(line) \in {"chapter", "caps"} =>
             detectHeading(line).level = 1
        /\ FirstRule(line) = "title" => detectHeading(line).level = 2
        /\ FirstRule(line) = "none" => detectHeading(line) = NoHeading

(***************************************************************************)
(* Front and back matter: the pages kept                                   *)
(***************************************************************************)
\* the page numbers of the page objects, in order
PageNumbers(pageObjects) == [i \in 1..Len(pageObjects) |-> pageObjects[i].page]

\* no page is a start page, none shows a front-matter keyword, none a
\* back-matter keyword
NoMatterFound(pages) ==
  \A i \in 1..Len(pages) :
    /\ ~IsStartPage(pages[i])
    /\ ~IsFrontMatter(TopSample(pages[i], FrontSampleLines))
    /\ ~IsBackMatter(TopSample(pages[i], BackSampleLines))

\* C27: removeFrontAndBackMatter is permissive: of a non-empty page list it
\* keeps a non-empty contiguous range of pages in their order, and all pages
\* when no page has a start-of-body marker, a front-matter keyword or a
\* back-matter keyword.
C27_KeepsNonEmptyRange ==
  SectionsDone /\ doc.stripped # <<>> =>
    /\ doc.trimmed # <<>>
    /\ \E first \in 1..Len(doc.stripped) :
         PageNumbers(doc.trimmed)
           = [i \in 1..Len(doc.trimmed) |-> first + i - 1]
    /\ doc.trimmed[Len(doc.trimmed)].page <= Len(doc.stripped)
    /\ NoMatterFound(doc.stripped) => Len(doc.trimmed) = Len(doc.stripped)

\* the last page that is no back matter lies before the start page, and the
\* pages from the start page on are kept
C27_BodyEndsBeforeStart ==
  /\ SectionsDone
  /\ LastBodyPage(PageObjects(doc.stripped))
       < AcademicStartPage(PageObjects(doc.stripped))
  /\ doc.trimmed # <<>>
  /\ doc.trimmed[1].page = AcademicStartPage(PageObjects(doc.stripped))

(***************************************************************************)
(* The temporary file at the OCR fallback                                  *)
(***************************************************************************)
\* C28: whenever the handler invokes performOCRIfNeeded on the uploaded
\* temporary file, the file still exists: the text extraction has not
\* deleted it.
C28_FileThereForOcr == hpc = "ocr" => tmpFile = "exists"

(***************************************************************************)
(* The countdown of the quiz component                                     *)
(***************************************************************************)
\* the time of a quiz started with a positive timer has run out
TimeRanOut == ui.pc = "quiz" /\ ui.timer > 0 /\ ui.timeLeft = 0 /\ ~ui.finished

\* C29: in a quiz started with a positive timer the countdown goes down by
\* one at a time; once it is 0 the quiz becomes finished and onComplete gets
\* the current score: no other step is taken from there, the quiz does not
\* stay answerable.
C29_CountdownFinishes ==
  [][/\ (ui.pc = "quiz" /\ ui'.timeLeft # ui.timeLeft)
         => ui'.timeLeft = ui.timeLeft - 1
     /\ TimeRanOut => ui'.finished /\ ui'.reported = ui.score]_vars

(***************************************************************************)
(* The topic list of the admin page: src/pages/Admin.jsx                   *)
(***************************************************************************)
MaxTopics == 3

\* a topic as far as the list is concerned: its id and whether it was edited
NewTopic(id) == [id |-> id, edited |-> FALSE]

\* the ids Date.now().toString() can still give
CanCreate == admin.nextId <= MaxTopics

\* createEmptyTopic: saveAndSetTopics([...topics, newTopic])
createEmptyTopic ==
  /\ CanCreate
  /\ admin' = [admin EXCEPT !.topics = Append(admin.topics, NewTopic(admin.nextId)),
                            !.nextId = admin.nextId + 1]
  /\ UNCHANGED <<reqVars, doc, ui, run>>

\* handleDeleteTopic(id), confirmed
handleDeleteTopic ==
  /\ \E k \in 1..Len(admin.topics) :
       admin' = [admin EXCEPT
                   !.topics = SelectSeq(admin.topics,
                                LAMBDA t : t.id # admin.topics[k].id)]
  /\ UNCHANGED <<reqVars, doc, ui, run>>

\* handleUpdateTopic(id, key, value) on a topic not edited before
editTopic ==
  /\ \E k \in 1..Len(admin.topics) :
       /\ ~admin.topics[k].edited
       /\ admin' = [admin EXCEPT
                      !.topics = [j \in 1..Len(admin.topics) |->
                                    IF admin.topics[j].id = admin.topics[k].id
                                    THEN [admin.topics[j] EXCEPT !.edited = TRUE]
                                    ELSE admin.topics[j]]]
  /\ UNCHANGED <<reqVars, doc, ui, run>>

\* handleUploadPdf up to await fetch(...): the handler runs with the topics
\* of the render in which it was created
uploadStarts ==
  /\ ~admin.uploading
  /\ CanCreate
  /\ admin' = [admin EXCEPT !.uploading = TRUE, !.captured = admin.topics]
  /\ UNCHANGED <<reqVars, doc, ui, run>>

\* handleUploadPdf after the response: saveAndSetTopics([...topics,
\* newTopic]) with the topics of its closure when the response is ok and has
\* questions, the catch block otherwise
uploadCompletes ==
  /\ admin.uploading
  /\ \E ok \in BOOLEAN :
       admin' = IF ok
                THEN [admin EXCEPT
                        !.topics = Append(admin.captured, NewTopic(admin.nextId)),
                        !.nextId = admin.nextId + 1,
                        !.uploading = FALSE, !.captured = <<>>]
                ELSE [admin EXCEPT !.uploading = FALSE, !.captured = <<>>]
  /\ UNCHANGED <<reqVars, doc, ui, run>>

AdminInit ==
  /\ hnd = "upload_js"
  /\ ext = "pdfparse"
  /\ hpc = "idle"
  /\ field = JUndefined
  /\ mimetype = ""
  /\ tmpFile = "none"
  /\ text = <<>>
  /\ ocrRan = FALSE
  /\ ocr = <<>>
  /\ gen = IdleGen
  /\ quiz = NoQuiz
  /\ res = NoResponse
  /\ doc = IdleDoc
  /\ ui = IdleUi
  /\ admin = IdleAdmin
  /\ run = IdleRun

AdminNext ==
  \/ createEmptyTopic
  \/ handleDeleteTopic
  \/ editTopic
  \/ uploadStarts
  \/ uploadCompletes

AdminSpec == AdminInit /\ [][AdminNext]_vars

\* the step in which the upload in flight completes
UploadCompleting == admin.uploading /\ ~admin'.uploading

\* C30: a change to the topic list made while an upload is in flight is
\* still there after the upload completes: completion leaves the list as it
\* is at that moment, or appends the new topic to it.
C30_ChangesSurviveUpload ==
  [][UploadCompleting =>
       \/ admin'.topics = admin.topics
       \/ /\ Len(admin'.topics) = Len(admin.topics) + 1
          /\ SubSeq(admin'.topics, 1, Len(admin.topics)) = admin.topics]_vars

(***************************************************************************)
(* Answer normalization of the topic/subtopic version:                     *)
(* api/services/quizService.js, second half                                *)
(***************************************************************************)
\* null as the answer of normalizeCorrectForQuestion and findAnswerByKeyword
Unresolved == 0

\* s.includes(w)
Includes(s, w) == w = <<>> \/ \E k \in 1..Len(s) : MatchAt(s, w, k)

\* /\b([cs])\b/ matches the character at position k of s
StandaloneAt(s, k, cs) ==
  /\ s[k] \in cs
  /\ (k = 1 \/ ~IsWordChar(s[k - 1]))
  /\ (k = Len(s) \/ ~IsWordChar(s[k + 1]))

\* the position of the first match of /\b([cs])\b/ in s, 0 when there is none
FirstStandalone(s, cs) == FirstIn({k \in 1..Len(s) : StandaloneAt(s, k, cs)})

\* letter.toUpperCase().charCodeAt(0) - 64 for a letter of A-D, a-d
LetterNumber(c) ==
  CASE ToLowerChar(c) = "a" -> 1
    [] ToLowerChar(c) = "b" -> 2
    [] ToLowerChar(c) = "c" -> 3
    [] OTHER -> 4

AnswerWord == <<"a", "n", "s", "w", "e", "r">>

\* the end of [:\-\s]* from position i on
RECURSIVE SkipSeparators(_, _)
SkipSeparators(s, i) ==
  IF i <= Len(s) /\ (s[i] \in {":", "-"} \/ IsWs(s[i]))
  THEN SkipSeparators(s, i + 1)
  ELSE i

\* s.replace(/^answer[:\-\s]*/i, "").trim()
Cleaned(s) ==
  Trim(IF Len(s) >= Len(AnswerWord)
          /\ ToLowerCase(SubSeq(s, 1, Len(AnswerWord))) = AnswerWord
       THEN Slice(s, SkipSeparators(s, Len(AnswerWord) + 1), Len(s))
       ELSE s)

\* q.options[i]?.toLowerCase() || "", for options that are strings
OptionLower(options, i) ==
  IF i <= Len(options) /\ options[i].t = "str"
  THEN ToLowerCase(options[i].v)
  ELSE <<>>

\* the options the loop over i = 0..3 would return for the cleaned text
TextMatches(options, cleaned) ==
  {i \in 1..4 :
     LET opt == OptionLower(options, i) IN
       opt = cleaned \/ Includes(opt, cleaned) \/ Includes(cleaned, opt)}

\* normalizeCorrectForQuestion(q): a number of 1..4, or Unresolved
normalizeCorrectForQuestion(q) ==
  LET options == Get(q, K_options)
      corr == Get(q, K_correct)
  IN
  IF ~Truthy(q) \/ options.t # "arr" \/ Len(options.v) # 4 THEN Unresolved
  ELSE IF corr.t = "num" /\ corr.v >= 1 /\ corr.v <= 4 THEN corr.v
  ELSE IF corr.t = "str" THEN
    LET s == Trim(corr.v)
        letter == FirstStandalone(s, {"A", "B", "C", "D", "a", "b", "c", "d"})
        num == FirstStandalone(s, {"1", "2", "3", "4"})
        cleaned == ToLowerCase(Cleaned(s))
    IN IF letter # 0 THEN LetterNumber(s[letter])
       ELSE IF num # 0 THEN DigitValue(s[num])
       ELSE FirstIn(TextMatches(options.v, cleaned))
  ELSE Unresolved

\* the starts of the pieces of opt.split(/\W+/).filter(Boolean)
WordStarts(s) ==
  {k \in 1..Len(s) : IsWordChar(s[k]) /\ (k = 1 \/ ~IsWordChar(s[k - 1]))}

\* the last character of the piece that starts at k
RECURSIVE WordEnd(_, _)
WordEnd(s, k) ==
  IF k < Len(s) /\ IsWordChar(s[k + 1]) THEN WordEnd(s, k + 1) ELSE k

\* t.match(new RegExp("\\b" + w + "\\b", "g")).length
CountWord(t, w) ==
  Cardinality({k \in 1..Len(t) :
                 /\ MatchAt(t, w, k)
                 /\ (k = 1 \/ ~IsWordChar(t[k - 1]))
                 /\ (k + Len(w) > Len(t) \/ ~IsWordChar(t[k + Len(w)]))})

\* the score of one option: its first 6 words, those under 3 letters skipped
RECURSIVE KeywordScore(_, _, _, _)
KeywordScore(t, opt, starts, taken) ==
  IF starts = {} \/ taken = 6 THEN 0
  ELSE LET k == FirstIn(starts)
           w == SubSeq(opt, k, WordEnd(opt, k))
       IN (IF Len(w) < 3 THEN 0 ELSE CountWord(t, w))
          + KeywordScore(t, opt, starts \ {k}, taken + 1)

\* the loop of findAnswerByKeyword from option i on
RECURSIVE BestOption(_, _, _, _)
BestOption(scores, i, best, bestScore) ==
  IF i > Len(scores) THEN best
  ELSE IF scores[i] > bestScore THEN BestOption(scores, i + 1, i, scores[i])
  ELSE BestOption(scores, i + 1, best, bestScore)

\* findAnswerByKeyword(sectionText, options)
findAnswerByKeyword(sectionText, options) ==
  IF sectionText = <<>> THEN Unresolved
  ELSE LET t == ToLowerCase(sectionText)
           scores == [i \in 1..Len(options) |->
                        KeywordScore(t, OptionLower(options, i),
                                     WordStarts(OptionLower(options, i)), 0)]
       IN BestOption(scores, 1, Unresolved, 0)

\* the element test of validateQuestionsArrayStrict
strictQuestion(q) ==
  /\ validQuestion(q)
  /\ Cardinality({Trim(OptionLower(Get(q, K_options).v, i)) : i \in 1..4}) = 4

validateQuestionsArrayStrict(arr) ==
  /\ arr.t = "arr"
  /\ \A i \in 1..Len(arr.v) : strictQuestion(arr.v[i])

\* q[key] = val on a question object
SetMember(q, key, val) ==
  IF \E k \in 1..Len(q.v) : q.v[k].key = key
  THEN JObj([k \in 1..Len(q.v) |->
               IF q.v[k].key = key THEN [key |-> key, val |-> val] ELSE q.v[k]])
  ELSE JObj(Append(q.v, [key |-> key, val |-> val]))

\* words.length of estimateNumQuestions, Math.round(words / 150) clamped
estimateNumQuestions(blockText) ==
  Max(3, Min(10, (2 * Len(SplitWords(blockText, 1)) + 150) \div 300))

(***************************************************************************)
(* The generators that work unit by unit: the topic/subtopic version of    *)
(* api/services/quizService.js and the topic-cluster version               *)
(***************************************************************************)
MaxUnits == 2
\* the whole text, where localGenerator is given it instead of a unit
WholeText == 0

TextZinc ==
  <<"O", "b", "s", "e", "r", "v", "e", " ", "h", "o", "w", " ", "z", "i",
    "n", "c", " ", "k", "e", "e", "p", "s", " ", "a", " ", "s", "t", "e",
    "e", "l", " ", "s", "h", "e", "e", "t", " ", "f", "r", "e", "e", " ",
    "f", "r", "o", "m", " ", "r", "u", "s", "t", ".">>

\* the sections splitIntoTopics and splitIntoSubtopics cut the text into
UnitTexts == {TextBrief, TextZinc}
UnitLists == UNION {[1..n -> UnitTexts] : n \in 1..MaxUnits}

Metals ==
  << <<"i", "r", "o", "n">>, <<"z", "i", "n", "c">>, <<"g", "o", "l", "d">>,
     <<"l", "e", "a", "d">> >>
NoneWord == <<"n", "o", "n", "e">>

\* a question about the metals with the correct-answer indicator corr
Asked(corr) == SetMember(Question(<<"Q", "1">>, Metals, 0), K_correct, corr)

\* the batches the oracle may answer a unit with
UnitBatches ==
  { <<Asked(JNum(2))>>, <<Asked(JNum(0))>>, <<Asked(JStr(<<"b">>))>>,
    <<Asked(JStr(Metals[3]))>>, <<Asked(JNum(1)), Asked(JStr(NoneWord))>>,
    <<Asked(JStr(NoneWord)), Asked(JStr(NoneWord))>> }

\* response.choices[0].message.content of a generation or repair call
UnitOutputs == {JsonStringify(JArr(b)) : b \in UnitBatches} \cup {ProseOnly}

\* the content of the verifier's answer
VerifierOutputs == { <<"3">>, <<"n", "o">> }

\* findJsonCodeBlock(raw) || findBalanced(raw) || repairJsonString(raw)
JsonStringOf(raw) ==
  OrElse(findJsonCodeBlock(raw), OrElse(findBalanced(raw), repairJsonString(raw)))

\* the strings of an options array
OptionStrings(q) ==
  LET o == Get(q, K_options) IN
    IF o.t = "arr" THEN [i \in 1..Len(o.v) |-> o.v[i].v] ELSE <<>>

\* q.correct = normalized || null and q.id = ... on question qi of the batch
Settled(parsed, qi, n, u) ==
  JArr([k \in 1..Len(parsed.v) |->
          IF k = qi
          THEN SetMember(SetMember(parsed.v[k], K_correct,
                                   IF n = Unresolved THEN JNull ELSE JNum(n)),
                         K_id, JStr(NatChars(u) \o <<"-">> \o NatChars(qi)))
          ELSE parsed.v[k]])

\* what the indicator of a question was and what it was resolved to
Resolution(q, n) ==
  [corr |-> Get(q, K_correct), options |-> OptionStrings(q), got |-> n]

\* normalizeCorrectForQuestion(q), then findAnswerByKeyword(subText, options)
FirstResolved(q, subText) ==
  LET normalized == normalizeCorrectForQuestion(q) IN
    IF normalized # Unresolved THEN normalized
    ELSE findAnswerByKeyword(subText, Get(q, K_options).v)

\* the loop over parsed from question qi on, up to the first question that
\* has to wait for the verifier
RECURSIVE NormalizeFrom(_, _, _, _, _)
NormalizeFrom(parsed, qi, subText, u, norm) ==
  IF parsed.t # "arr" \/ qi > Len(parsed.v)
  THEN [parsed |-> parsed, qi |-> qi, norm |-> norm, waiting |-> FALSE]
  ELSE LET n == FirstResolved(parsed.v[qi], subText) IN
    IF n = Unresolved
    THEN [parsed |-> parsed, qi |-> qi, norm |-> norm, waiting |-> TRUE]
    ELSE NormalizeFrom(Settled(parsed, qi, n, u), qi + 1, subText, u,
                       norm \cup {Resolution(parsed.v[qi], n)})

\* allQuestions.push(...questions) for the unit at hand
Pushed(r, questions, from) ==
  [r EXCEPT !.all = r.all \o [i \in 1..Len(questions) |->
                                [unit |-> r.u, from |-> from, q |-> questions[i]]]]

\* localGenerator(subText, dynamicCount) and its questions pushed
FellBack(r, rnd) ==
  LET subText == r.units[r.u]
      local == localGenerator(subText, JNum(estimateNumQuestions(subText)), rnd)
  IN [Pushed(r, [i \in 1..Len(local) |->
                   SetMember(local[i], K_id,
                             JStr(NatChars(r.u) \o <<"-", "L">> \o NatChars(i)))],
             "local")
      EXCEPT !.fell = r.fell \cup {r.u}]

\* the draws of Math.random() localGenerator may make on the unit at hand
UnitDraws(r) ==
  FallbackDraws(r.units[r.u], JNum(estimateNumQuestions(r.units[r.u])))

\* the next subtopic and its generation call, or the return
NextUnit(r) ==
  IF r.u < Len(r.units)
  THEN [r EXCEPT !.pc = "generate", !.u = r.u + 1,
                 !.calls = [r.calls EXCEPT ![r.u + 1] = 1],
                 !.parsed = JArr(<<>>), !.qi = 0]
  ELSE [r EXCEPT !.pc = "done", !.parsed = JArr(<<>>), !.qi = 0,
                 !.reason = "Topic & Subtopic coverage"]

\* the unit ends with the fallback, whatever Math.random() draws
FallenBack(r) == {NextUnit(FellBack(r, rnd)) : rnd \in UnitDraws(r)}

\* validateQuestionsArrayStrict(parsed): the batch or the fallback
Validated(r) ==
  IF validateQuestionsArrayStrict(r.parsed)
  THEN {NextUnit(Pushed(r, r.parsed.v, "ai"))}
  ELSE FallenBack([r EXCEPT !.rejected = r.rejected \cup {r.u}])

\* the normalization loop up to the verifier call or to the end of the
\* unit: the states it can lead to
Normalized(r) ==
  LET step == NormalizeFrom(r.parsed, r.qi, r.units[r.u], r.u, r.norm)
      s == [r EXCEPT !.parsed = step.parsed, !.qi = step.qi, !.norm = step.norm]
  IN IF step.waiting
     THEN {[s EXCEPT !.pc = "verify",
                     !.calls = [r.calls EXCEPT ![r.u] = r.calls[r.u] + 1]]}
     ELSE Validated(s)

\* generateQuizFromText of the topic/subtopic version up to its first call
SubtopicsBegin ==
  /\ run.pc = "idle"
  /\ \E units \in UnitLists :
       run' = [IdleRun EXCEPT !.pc = "generate", !.ver = "subtopic",
                              !.units = units, !.u = 1,
                              !.calls = [i \in 1..Len(units) |->
                                           IF i = 1 THEN 1 ELSE 0]]
  /\ UNCHANGED <<reqVars, doc, ui, admin>>

\* the generation call answers or throws: parse, repair, normalize
SubtopicsGenerated ==
  /\ run.pc = "generate"
  /\ run.ver = "subtopic"
  /\ \/ run' \in FallenBack(run)
     \/ \E raw \in UnitOutputs :
          LET jsonString == JsonStringOf(raw)
              first == JsonParse(jsonString)
              second == JsonParse(repairJsonString(jsonString))
          IN run' \in
               IF first.ok
               THEN Normalized([run EXCEPT !.parsed = first.val, !.qi = 1])
               ELSE IF second.ok
               THEN Normalized([run EXCEPT !.parsed = second.val, !.qi = 1])
               ELSE {[run EXCEPT !.pc = "repair",
                                 !.calls = [run.calls EXCEPT
                                              ![run.u] = run.calls[run.u] + 1]]}
  /\ UNCHANGED <<reqVars, doc, ui, admin>>

\* the JSON repair call answers or throws
SubtopicsRepaired ==
  /\ run.pc = "repair"
  /\ \/ run' \in Normalized([run EXCEPT !.parsed = JArr(<<>>), !.qi = 1])
     \/ \E fixedRaw \in UnitOutputs :
          LET fixed == JsonParse(JsonStringOf(fixedRaw)) IN
            run' \in Normalized([run EXCEPT
                                   !.parsed = IF fixed.ok THEN fixed.val
                                              ELSE JArr(<<>>),
                                   !.qi = 1])
  /\ UNCHANGED <<reqVars, doc, ui, admin>>

\* the verifier call for question qi answers or throws
SubtopicsVerified ==
  /\ run.pc = "verify"
  /\ \E n \in {Unresolved}
              \cup {LET m == FirstStandalone(v, {"1", "2", "3", "4"}) IN
                      IF m = 0 THEN Unresolved ELSE DigitValue(v[m]) :
                    v \in VerifierOutputs} :
       run' \in Normalized(
                  [run EXCEPT
                     !.parsed = Settled(run.parsed, run.qi, n, run.u),
                     !.qi = run.qi + 1,
                     !.norm = run.norm
                                \cup {Resolution(run.parsed.v[run.qi], n)}])
  /\ UNCHANGED <<reqVars, doc, ui, admin>>

ClusterTexts == {TextLesson}

MinClusterSentenceChars == 40

\* the sentences localGenerator of the topic-cluster version keeps: its
\* patterns /\\s+/ and /[.?!]\\s+/ match a backslash followed by the letter
\* s, so a text without a backslash is left as it is and stays in one piece
ClusterSentences(t) ==
  SelectSeq(<<Trim(t)>>, LAMBDA x : Len(x) > MinClusterSentenceChars)

\* the answer word of a sentence: s.split(/\\s+/) is the sentence itself
ClusterCorrectWord(s) ==
  OrElse(LongestWord(SelectSeq(<<s>>, HasLetter)), DefaultWord)

\* one question of that localGenerator
ClusterQuestion(s, i, tokens) ==
  LET correctWord == ClusterCorrectWord(s)
      correct == KeepAlnumDash(correctWord)
      questionText == ReplaceFirst(s, correctWord, Blank)
      options == <<correct>> \o tokens
      correctIndex == FirstIn({k \in 1..Len(options) : options[k] = correct}) - 1
  IN JObj(<<[key |-> K_id, val |-> JStr(NatChars(i))],
            [key |-> K_question, val |-> JStr(questionText)],
            [key |-> K_options,
             val |-> JArr([k \in 1..Len(options) |-> JStr(options[k])])],
            [key |-> K_hint, val |-> JStr(HintText)],
            [key |-> K_correct,
             val |-> JNum((IF correctIndex >= 0 THEN correctIndex ELSE 0) + 1)],
            [key |-> K_explanation,
             val |-> JStr(ExplanationHead \o correct \o ExplanationTail)]>>)

\* localGenerator(t, numQuestions) of the topic-cluster version
localGeneratorOfClusters(t, numQuestions, rnd) ==
  LET sentences == ClusterSentences(t) IN
    [i \in 1..Min(numQuestions, Len(sentences)) |->
       ClusterQuestion(sentences[i], i, rnd[i])]

\* the draws of Math.random() for that call
ClusterDraws(t, numQuestions) ==
  LET sentences == ClusterSentences(t) IN
    IF Min(numQuestions, Len(sentences)) = 0 THEN {<<>>}
    ELSE {<<d>> : d \in TokenDraws(KeepAlnumDash(ClusterCorrectWord(sentences[1])))}

\* the return of the topic-cluster version with localGenerator(text, n),
\* whatever Math.random() draws
ClusterFallback(r, n, reason) ==
  {LET local == localGeneratorOfClusters(r.text, n, rnd) IN
     [r EXCEPT !.pc = "done",
               !.all = [i \in 1..Len(local) |->
                          [unit |-> WholeText, from |-> "local", q |-> local[i]]],
               !.fell = r.fell \cup {WholeText},
               !.reason = reason] :
   rnd \in ClusterDraws(r.text, n)}

\* generateQuizFromText of the topic-cluster version up to identifyTopics
ClustersBegin ==
  /\ run.pc = "idle"
  /\ \E t \in ClusterTexts :
       run' = [IdleRun EXCEPT !.pc = "topics", !.ver = "cluster", !.text = t]
  /\ UNCHANGED <<reqVars, doc, ui, admin>>

\* identifyTopics returns its topics, or [] when the call or the parse fails
ClustersIdentified ==
  /\ run.pc = "topics"
  /\ \/ run' \in ClusterFallback(run, 8, "No topics detected")
     \/ \E n \in 1..MaxUnits :
          run' = [run EXCEPT !.pc = "generate",
                             !.units = [i \in 1..n |-> NatChars(i)],
                             !.u = 1,
                             !.calls = [i \in 1..n |-> IF i = 1 THEN 1 ELSE 0]]
  /\ UNCHANGED <<reqVars, doc, ui, admin>>

\* the call for one topic answers or throws
ClustersGenerated ==
  /\ run.pc = "generate"
  /\ run.ver = "cluster"
  /\ \/ run' \in ClusterFallback(run, 8, "OpenRouter error")
     \/ \E raw \in UnitOutputs :
          LET first == JsonParse(JsonStringOf(raw))
              parsed == IF first.ok THEN first.val ELSE JArr(<<>>)
              r == IF validateQuestionsArray(parsed)
                   THEN Pushed(run, parsed.v, "ai")
                   ELSE [run EXCEPT !.rejected = run.rejected \cup {run.u}]
          IN run' \in
               IF run.u < Len(run.units)
               THEN {[r EXCEPT !.u = run.u + 1,
                               !.calls = [run.calls EXCEPT ![run.u + 1] = 1]]}
               ELSE IF r.all = <<>>
               THEN ClusterFallback(r, 10, "Invalid AI output")
               ELSE {[r EXCEPT !.pc = "done",
                               !.reason = "AI generated by topic clusters"]}
  /\ UNCHANGED <<reqVars, doc, ui, admin>>

UnitInit ==
  /\ hnd = "upload_js"
  /\ ext = "pdfparse"
  /\ hpc = "idle"
  /\ field = JUndefined
  /\ mimetype = ""
  /\ tmpFile = "none"
  /\ text = <<>>
  /\ ocrRan = FALSE
  /\ ocr = <<>>
  /\ gen = IdleGen
  /\ quiz = NoQuiz
  /\ res = NoResponse
  /\ doc = IdleDoc
  /\ ui = IdleUi
  /\ admin = IdleAdmin
  /\ run = IdleRun

UnitNext ==
  \/ SubtopicsBegin
  \/ SubtopicsGenerated
  \/ SubtopicsRepaired
  \/ SubtopicsVerified
  \/ ClustersBegin
  \/ ClustersIdentified
  \/ ClustersGenerated

UnitSpec == UnitInit /\ [][UnitNext]_vars

\* the questions of the result that came from the oracle's batch for unit u
FromBatch(u) ==
  {i \in 1..Len(run.all) : run.all[i].unit = u /\ run.all[i].from = "ai"}

\* C21: validation is all-or-nothing per synthesis call: when a batch fails
\* the schema, no question of it is in the result and the Fallback Generator
\* was invoked for that same unit.
C21_AllOrNothing ==
  run.pc = "done" =>
    \A u \in run.rejected : FromBatch(u) = {} /\ u \in run.fell

\* C22: the orchestrator makes at most two oracle calls for each text unit,
\* the generation call and one retry.
C22_AtMostTwoCalls ==
  \A u \in 1..Len(run.calls) : run.calls[u] <= 2

\* the options an indicator designates: a 1-based integer, a 0-based
\* integer, a letter A to D in either case, a string equal to an option
Designates(corr, options) ==
  {d \in 1..4 :
     \/ corr.t = "num" /\ (corr.v = d \/ corr.v = d - 1)
     \/ corr.t = "str" /\ Len(corr.v) = 1 /\ LetterNumber(corr.v[1]) = d
          /\ ToLowerChar(corr.v[1]) \in {"a", "b", "c", "d"}
     \/ corr.t = "str" /\ corr.v = options[d]}

\* C23: for a question with 4 options, an indicator that designates an
\* option is resolved to it, and every indicator is after normalization
\* unresolved or an integer within the option range.
C23_IndicatorResolved ==
  \A r \in run.norm :
    /\ r.got = Unresolved \/ r.got \in 1..Len(r.options)
    /\ Len(r.options) = 4 /\ Designates(r.corr, r.options) # {}
         => r.got \in Designates(r.corr, r.options)

=============================================================================
